---- MODULE Spec2Model ----
(***************************************************************************)
(* Real Estate Intelligence System: the deterministic valuation engine     *)
(* (mock_analysis.py), the shared calculation helpers                      *)
(* (utils/calculations.py), the property input validator                   *)
(* (utils/validators.py), the analyze request pipeline (api_app.py,        *)
(* agents/orchestrator.py) and the human-intervention objects              *)
(* (human_intervention/approval_workflow.py, feedback_handler.py).         *)
(*                                                                         *)
(* Numbers.  TLC has integers only, so every Python float is kept as an    *)
(* exact scaled integer or an exact fraction:                              *)
(*   money            cents (1/100 dollar) once rounded with round(x, 2)   *)
(*   unrounded money  a record [i, n, d] meaning i + n/d dollars, n < d    *)
(*   percentages      hundredths of a percent (round(x, 2))                *)
(*   multipliers      numerator over the denominator named next to them    *)
(* round(x, k) is Python's round: to nearest, ties to even.                *)
(***************************************************************************)
EXTENDS Integers, Sequences, FiniteSets, TLC

VARIABLES
    pc,              \* position of the running call / request
    property_data,   \* the property dictionary handed to the operation
    rnd,             \* the values the random source yields during the call
    analysis,        \* what RealEstateAnalysisEngine.analyze_property gave
    call,            \* a helper call of utils/calculations: [fn, a, b, c]
    ret,             \* what the helper call returned (or raised)
    validation,      \* what validate_property_input returned
    validator_runs,  \* property dictionaries the input validator was run on
    engine_runs,     \* property dictionaries the engine was invoked on
    agent_plan,      \* how the advisory calls of this request ended so far
    orch_result,     \* what PropertyOrchestrator.analyze_property returned
    envelope,        \* what the /analyze endpoint returned
    clock,           \* the wall clock read by datetime.now()
    approvals,       \* ApprovalWorkflow.approvals: analysis id -> record
    approval_call,   \* the last ApprovalWorkflow method called, with arguments
    approvals_before,\* approvals as that call found it
    approval_ret,    \* what that method returned
    feedback_history,\* FeedbackHandler.feedback_history: the feedback log
    feedback_call,   \* the last FeedbackHandler method called, with arguments
    feedback_before, \* feedback_history as that call found it
    feedback_ret,    \* what that method returned
    caller_analysis, \* the analysis dictionary the caller of the handler holds
    analysis_given,  \* the analysis handed to ValidationManager.validate_analysis
    validation_rets  \* what the calls of validate_analysis on it gave, in order

\* the request pipeline and the calculation calls
pipeline == <<pc, property_data, rnd, analysis, call, ret, validation,
              validator_runs, engine_runs, agent_plan, orch_result, envelope>>

approval_vars == <<approvals, approval_call, approvals_before, approval_ret>>
feedback_vars == <<feedback_history, feedback_call, feedback_before,
                   feedback_ret, caller_analysis>>

validation_vars == <<analysis_given, validation_rets>>

\* the human-intervention objects
workbench == <<clock, approval_vars, feedback_vars, validation_vars>>

vars == <<pipeline, workbench>>

(***************************************************************************)
(* Bounds of the model.                                                    *)
(***************************************************************************)
\* largest floor area drawn for the engine and the helpers (the validator
\* allows up to MAX_SQFT; money in cents must stay inside TLC's integers)
MaxSqftDrawn == 2500
\* largest age drawn above the depreciation floor and the risk thresholds
MaxAgeDrawn == 200

(***************************************************************************)
(* Python built-ins.                                                       *)
(***************************************************************************)
\* dict.get(key, default)
Get(d, k, default) == IF k \in DOMAIN d THEN d[k] ELSE default

\* str.lower() on the strings the model draws
Lower(s) ==
    CASE s = "Downtown" -> "downtown"
      [] s = "URBAN" -> "urban"
      [] s = "Good" -> "good"
      [] s = "POOR" -> "poor"
      [] s = "Average" -> "average"
      [] OTHER -> s

Min(a, b) == IF a < b THEN a ELSE b
Max(a, b) == IF a > b THEN a ELSE b
Abs(a) == IF a < 0 THEN -a ELSE a

\* round(num / den) for den > 0: nearest integer, ties to the even one
RoundHalfEven(num, den) ==
    LET q == num \div den
        r == num % den
    IN  IF 2 * r < den THEN q
        ELSE IF 2 * r > den THEN q + 1
        ELSE IF q % 2 = 0 THEN q ELSE q + 1

\* the value of a function call: exc = "none" and the value, or the
\* exception it raised
Returned(v) == [exc |-> "none", val |-> v, inf |-> FALSE]
Raised(e) == [exc |-> e, val |-> 0, inf |-> FALSE]
\* float('inf')
Infinity == [exc |-> "none", val |-> 0, inf |-> TRUE]

RECURSIVE GCD(_, _)
GCD(a, b) == IF b = 0 THEN a ELSE GCD(b, a % b)

(***************************************************************************)
(* Exact non-negative numbers i + n/d (0 <= n < d, n/d in lowest terms)    *)
(* and decimal literals written as fractions <<p, q>> (1.4 is <<7, 5>>).   *)
(***************************************************************************)
QInt(k) == [i |-> k, n |-> 0, d |-> 1]

\* x * (p/q)
QMul(x, f) ==
    LET ip == x.i * f[1]
        den == x.d * f[2]
        fracNum == (ip % f[2]) * x.d + x.n * f[1]
        num == fracNum % den
        g == GCD(den, num)
    IN  [i |-> ip \div f[2] + fracNum \div den, n |-> num \div g, d |-> den \div g]

\* x + y
QAdd(x, y) ==
    LET l == (x.d \div GCD(x.d, y.d)) * y.d
        fracNum == x.n * (l \div x.d) + y.n * (l \div y.d)
        num == fracNum % l
        g == GCD(l, num)
    IN  [i |-> x.i + y.i + fracNum \div l, n |-> num \div g, d |-> l \div g]

QIsZero(x) == x.i = 0 /\ x.n = 0

\* round(x, k) with scale = 10^k, as an integer number of 1/scale
QRound(x, scale) ==
    LET q == (scale * x.n) \div x.d
        r == (scale * x.n) % x.d
        low == x.i * scale + q
    IN  IF 2 * r < x.d THEN low
        ELSE IF 2 * r > x.d THEN low + 1
        ELSE IF low % 2 = 0 THEN low ELSE low + 1

\* f + g on fractions
FAdd(f, g) ==
    LET num == f[1] * g[2] + g[1] * f[2]
        den == f[2] * g[2]
        c == GCD(den, num)
    IN  <<num \div c, den \div c>>

(***************************************************************************)
(* utils/calculations.py                                                   *)
(***************************************************************************)
LOCATION_MULTIPLIERS ==
    [downtown |-> <<7, 5>>, urban |-> <<6, 5>>, suburban |-> <<1, 1>>,
     rural |-> <<7, 10>>]

NEIGHBORHOOD_FACTORS ==
    [excellent |-> <<13, 10>>, good |-> <<11, 10>>, average |-> <<1, 1>>,
     developing |-> <<17, 20>>, poor |-> <<3, 5>>]

CONDITION_FACTORS ==
    [excellent |-> <<6, 5>>, good |-> <<11, 10>>, fair |-> <<1, 1>>,
     needs_repair |-> <<3, 4>>, poor |-> <<1, 2>>]

base_price_per_sqft == 150

\* the depreciation floored at 0 instead of 0.5
age_factor_floor0(age) == <<Max(0, 50 - age), 50>>

\* max(0.5, 1.0 - age * 0.02)
age_factor(age) == <<Max(25, 50 - age), 50>>

\* sqft * 150 * location * neighborhood * condition * age_factor, exact
ValuationProduct(sqft, location, neighborhood, condition, age) ==
    QMul(QMul(QMul(QMul(QInt(sqft * base_price_per_sqft),
        Get(LOCATION_MULTIPLIERS, location, <<1, 1>>)),
        Get(NEIGHBORHOOD_FACTORS, neighborhood, <<1, 1>>)),
        Get(CONDITION_FACTORS, condition, <<1, 1>>)),
        age_factor(age))

\* the valuation with the neighborhood multiplier left out
calculate_base_valuation_no_neighborhood(p) ==
    LET sqft == Get(p, "sqft", 2000)
        location == Lower(Get(p, "location_type", "suburban"))
        condition == Lower(Get(p, "condition", "fair"))
        age_years == Get(p, "age_years", 0)
    IN  Returned(QRound(ValuationProduct(sqft, location, "average",
                                         condition, age_years), 100))

\* the result is in cents
calculate_base_valuation(p) ==
    LET sqft == Get(p, "sqft", 2000)
        location == Lower(Get(p, "location_type", "suburban"))
        neighborhood == Lower(Get(p, "neighborhood_rating", "average"))
        condition == Lower(Get(p, "condition", "fair"))
        age_years == Get(p, "age_years", 0)
    IN  Returned(QRound(ValuationProduct(sqft, location, neighborhood,
                                         condition, age_years), 100))

\* valuation in dollars, result in cents
calculate_price_per_sqft(valuation, sqft) ==
    IF sqft <= 0 THEN Returned(0)
    ELSE Returned(RoundHalfEven(100 * valuation, sqft))

\* amounts in dollars, result in hundredths of a percent
calculate_roi(annual_return, valuation) ==
    IF valuation <= 0 THEN Returned(0)
    ELSE Returned(RoundHalfEven(10000 * annual_return, valuation))

\* the guard testing < 0 instead of <= 0
calculate_payback_period_strict_guard(valuation, annual_return) ==
    IF annual_return < 0 THEN Infinity
    ELSE IF annual_return = 0 THEN Raised("ZeroDivisionError")
    ELSE Returned(RoundHalfEven(100 * valuation, annual_return))

\* amounts in dollars, result in hundredths of a year
calculate_payback_period(valuation, annual_return) ==
    IF annual_return <= 0 THEN Infinity
    ELSE Returned(RoundHalfEven(100 * valuation, annual_return))

\* the score without the lower clamp max(1, ...)
calculate_investment_score_no_floor(roi, valuation, condition_rating) ==
    LET roi_score == Min(4 * 500, 2 * roi)
        valuation_score ==
            IF 200000 <= valuation /\ valuation <= 600000 THEN 3 * 500
            ELSE IF 100000 <= valuation /\ valuation < 1000000 THEN 1250
            ELSE 2 * 500
        total_score == roi_score + valuation_score + condition_rating * 15
    IN  Returned(Min(10, RoundHalfEven(total_score, 500)))

\* roi in hundredths of a percent, valuation in dollars, condition_rating in
\* hundredths; the three part scores are summed in units of 1/500
calculate_investment_score(roi, valuation, condition_rating) ==
    LET roi_score == Min(4 * 500, 2 * roi)
        valuation_score ==
            IF 200000 <= valuation /\ valuation <= 600000 THEN 3 * 500
            ELSE IF 100000 <= valuation /\ valuation < 1000000 THEN 1250
            ELSE 2 * 500
        condition_score == condition_rating * 15
        total_score == roi_score + valuation_score + condition_score
    IN  Returned(Min(10, Max(1, RoundHalfEven(total_score, 500))))

\* a rural location weighs 6
location_risk_map_rural_six ==
    [downtown |-> 2, urban |-> 2, suburban |-> 3, rural |-> 6]

location_risk_map ==
    [downtown |-> 2, urban |-> 2, suburban |-> 3, rural |-> 4]

\* the risk level with the age thresholds compared with >= instead of >
calculate_risk_level_age_inclusive(location_type, condition, age_years) ==
    LET condition_risk_map ==
            [excellent |-> 1, good |-> 2, fair |-> 3, needs_repair |-> 4,
             poor |-> 5]
        age_risk == IF age_years >= 50 THEN 3
                    ELSE IF age_years >= 30 THEN 2
                    ELSE 0
        risk_score == Get(location_risk_map, Lower(location_type), 3)
                      + Get(condition_risk_map, Lower(condition), 3)
                      + age_risk
    IN  Returned(IF 2 * risk_score < 9 THEN "low"
                 ELSE IF 2 * risk_score < 15 THEN "low-moderate"
                 ELSE IF 2 * risk_score < 21 THEN "moderate"
                 ELSE IF 2 * risk_score < 27 THEN "moderate-high"
                 ELSE "high")

calculate_risk_level(location_type, condition, age_years) ==
    LET condition_risk_map ==
            [excellent |-> 1, good |-> 2, fair |-> 3, needs_repair |-> 4,
             poor |-> 5]
        age_risk == IF age_years > 50 THEN 3
                    ELSE IF age_years > 30 THEN 2
                    ELSE IF age_years > 50 THEN 1
                    ELSE 0
        risk_score == Get(location_risk_map, Lower(location_type), 3)
                      + Get(condition_risk_map, Lower(condition), 3)
                      + age_risk
    IN  \* avg_risk = risk_score / 3 compared with 1.5, 2.5, 3.5, 4.5
        Returned(IF 2 * risk_score < 9 THEN "low"
                 ELSE IF 2 * risk_score < 15 THEN "low-moderate"
                 ELSE IF 2 * risk_score < 21 THEN "moderate"
                 ELSE IF 2 * risk_score < 27 THEN "moderate-high"
                 ELSE "high")

(***************************************************************************)
(* utils/validators.py                                                     *)
(* A property dictionary is a record over a subset of the eight field      *)
(* names.  address is a sequence of characters; bedrooms, sqft and         *)
(* age_years are integers; bathrooms is counted in tenths; the three       *)
(* categorical fields are strings.                                         *)
(***************************************************************************)
VALID_LOCATION_TYPES == <<"downtown", "urban", "suburban", "rural">>
VALID_CONDITIONS == <<"excellent", "good", "fair", "needs_repair", "poor">>
VALID_NEIGHBORHOOD_RATINGS ==
    <<"excellent", "good", "average", "developing", "poor">>

Range(seq) == {seq[k] : k \in DOMAIN seq}

\* str.strip(): leading and trailing blanks removed
RECURSIVE Strip(_)
Strip(s) ==
    IF s = <<>> THEN s
    ELSE IF Head(s) = " " THEN Strip(Tail(s))
    ELSE IF s[Len(s)] = " " THEN Strip(SubSeq(s, 1, Len(s) - 1))
    ELSE s

validate_location_type(location_type) ==
    IF Lower(location_type) \notin Range(VALID_LOCATION_TYPES)
    THEN <<FALSE, "Invalid location type. Must be one of: downtown, urban, suburban, rural">>
    ELSE <<TRUE, "Valid location type">>

validate_condition(condition) ==
    IF Lower(condition) \notin Range(VALID_CONDITIONS)
    THEN <<FALSE, "Invalid condition. Must be one of: excellent, good, fair, needs_repair, poor">>
    ELSE <<TRUE, "Valid condition">>

validate_neighborhood_rating(rating) ==
    IF Lower(rating) \notin Range(VALID_NEIGHBORHOOD_RATINGS)
    THEN <<FALSE, "Invalid rating. Must be one of: excellent, good, average, developing, poor">>
    ELSE <<TRUE, "Valid neighborhood rating">>

required_fields ==
    <<"address", "bedrooms", "bathrooms", "sqft", "age_years",
      "location_type", "condition", "neighborhood_rating">>

MissingFieldMessage(field) ==
    CASE field = "address" -> "Missing required field: address"
      [] field = "bedrooms" -> "Missing required field: bedrooms"
      [] field = "bathrooms" -> "Missing required field: bathrooms"
      [] field = "sqft" -> "Missing required field: sqft"
      [] field = "age_years" -> "Missing required field: age_years"
      [] field = "location_type" -> "Missing required field: location_type"
      [] field = "condition" -> "Missing required field: condition"
      [] OTHER -> "Missing required field: neighborhood_rating"

\* one message when the condition holds
When(cond, msg) == IF cond THEN <<msg>> ELSE <<>>

\* the loop over required_fields
RECURSIVE MissingFields(_, _)
MissingFields(p, k) ==
    IF k > Len(required_fields) THEN <<>>
    ELSE When(required_fields[k] \notin DOMAIN p,
              MissingFieldMessage(required_fields[k]))
         \o MissingFields(p, k + 1)

\* the validator with the floor-area check left out
validate_property_input_no_sqft(p) ==
    LET missing == MissingFields(p, 1)
        address == Strip(Get(p, "address", <<>>))
        bedrooms == Get(p, "bedrooms", 0)
        bathrooms == Get(p, "bathrooms", 0)
        age_years == Get(p, "age_years", 0)
        errors ==
            When(address = <<>> \/ Len(address) < 5,
                 "Address must be at least 5 characters long")
            \o When(bedrooms < 1 \/ bedrooms > 20,
                    "Bedrooms must be between 1 and 20")
            \o When(bathrooms < 5 \/ bathrooms > 200,
                    "Bathrooms must be between 0.5 and 20")
            \o When(age_years < 0 \/ age_years > 200,
                    "Property age must be between 0 and 200 years")
            \o When(~validate_location_type(Get(p, "location_type", ""))[1],
                    validate_location_type(Get(p, "location_type", ""))[2])
            \o When(~validate_condition(Get(p, "condition", ""))[1],
                    validate_condition(Get(p, "condition", ""))[2])
            \o When(~validate_neighborhood_rating(Get(p, "neighborhood_rating", ""))[1],
                    validate_neighborhood_rating(Get(p, "neighborhood_rating", ""))[2])
    IN  IF missing # <<>> THEN [valid |-> FALSE, errors |-> missing]
        ELSE [valid |-> Len(errors) = 0, errors |-> errors]

\* returns [valid, errors]
validate_property_input(p) ==
    LET missing == MissingFields(p, 1)
        address == Strip(Get(p, "address", <<>>))
        bedrooms == Get(p, "bedrooms", 0)
        bathrooms == Get(p, "bathrooms", 0)
        sqft == Get(p, "sqft", 0)
        age_years == Get(p, "age_years", 0)
        errors ==
            When(address = <<>> \/ Len(address) < 5,
                 "Address must be at least 5 characters long")
            \o When(bedrooms < 1 \/ bedrooms > 20,
                    "Bedrooms must be between 1 and 20")
            \o When(bathrooms < 5 \/ bathrooms > 200,
                    "Bathrooms must be between 0.5 and 20")
            \o When(sqft < 500 \/ sqft > 1000000,
                    "Square footage must be between 500 and 1,000,000")
            \o When(age_years < 0 \/ age_years > 200,
                    "Property age must be between 0 and 200 years")
            \o When(~validate_location_type(Get(p, "location_type", ""))[1],
                    validate_location_type(Get(p, "location_type", ""))[2])
            \o When(~validate_condition(Get(p, "condition", ""))[1],
                    validate_condition(Get(p, "condition", ""))[2])
            \o When(~validate_neighborhood_rating(Get(p, "neighborhood_rating", ""))[1],
                    validate_neighborhood_rating(Get(p, "neighborhood_rating", ""))[2])
    IN  IF missing # <<>> THEN [valid |-> FALSE, errors |-> missing]
        ELSE [valid |-> Len(errors) = 0, errors |-> errors]

(***************************************************************************)
(* mock_analysis.py: RealEstateAnalysisEngine                              *)
(***************************************************************************)
\* unrounded, in dollars; the class tables LOCATION_MULTIPLIERS,
\* NEIGHBORHOOD_FACTORS and CONDITION_FACTORS of mock_analysis.py hold the
\* same values as the tables of utils/calculations.py
Engine_calculate_base_valuation(p) ==
    LET location == Lower(Get(p, "location_type", "suburban"))
        sqft == Get(p, "sqft", 2000)
        neighborhood == Lower(Get(p, "neighborhood_rating", "average"))
        condition == Lower(Get(p, "condition", "fair"))
        age == Get(p, "age_years", 10)
    IN  ValuationProduct(sqft, location, neighborhood, condition, age)

\* the investment recommendation block: [category, recommendation, score];
\* roi is the unrounded ROI in percent as a fraction
InvestmentBand(roi) ==
    IF roi[1] > 10 * roi[2] THEN
        [roi_category |-> "excellent", investment_score |-> 9,
         recommendation |-> "HIGHLY RECOMMENDED - Strong investment potential with excellent ROI"]
    ELSE IF roi[1] > 7 * roi[2] THEN
        [roi_category |-> "good", investment_score |-> 7,
         recommendation |-> "RECOMMENDED - Good investment with solid returns"]
    ELSE IF roi[1] > 5 * roi[2] THEN
        [roi_category |-> "moderate", investment_score |-> 5,
         recommendation |-> "CONSIDER - Moderate investment with acceptable returns"]
    ELSE
        [roi_category |-> "low", investment_score |-> 3,
         recommendation |-> "NOT RECOMMENDED - Low returns, better options available"]

\* recommendation.split('-')[0].strip()
RecommendationHeadline(score) ==
    CASE score = 9 -> "HIGHLY RECOMMENDED"
      [] score = 7 -> "RECOMMENDED"
      [] score = 5 -> "CONSIDER"
      [] OTHER -> "NOT RECOMMENDED"

\* seq[:k]
Prefix(seq, k) == SubSeq(seq, 1, Min(k, Len(seq)))

\* one comparable property of the market comparison loop
Comparable(k, estimated_valuation, sqft, beds, draw) ==
    LET comparable_price == QMul(estimated_valuation, draw.price_factor)
    IN  [address |-> k,
         price |-> QRound(comparable_price, 1),
         sqft |-> sqft + draw.sqft_delta,
         beds |-> beds + draw.beds_delta,
         price_per_sqft |-> QRound(QMul(comparable_price, <<1, sqft>>), 100)]

\* r holds what the random source yields during the call
Engine_analyze_property(p, r) ==
    LET property_name == Get(p, "address", <<"U", "n", "k", "n", "o", "w", "n">>)
        beds == Get(p, "bedrooms", 3)
        baths == Get(p, "bathrooms", 20)
        sqft == Get(p, "sqft", 2000)
        age == Get(p, "age_years", 10)
        base_valuation == Engine_calculate_base_valuation(p)
        estimated_valuation == QMul(base_valuation, r.variance)
        annual_rental == QMul(estimated_valuation, r.rental_yield)
        property_appreciation == QMul(estimated_valuation, r.appreciation_rate)
        total_annual_return == QAdd(annual_rental, property_appreciation)
        \* total_annual_return / estimated_valuation: both terms are exact
        \* multiples of estimated_valuation, so the quotient is the sum of
        \* the two drawn rates; times 100
        ratio == FAdd(r.rental_yield, r.appreciation_rate)
        roi_percentage == <<100 * ratio[1], ratio[2]>>
        band == InvestmentBand(roi_percentage)
        location_type == Lower(Get(p, "location_type", "suburban"))
        location_risk ==
            IF location_type = "downtown" THEN "low"
            ELSE IF location_type = "urban" THEN "low-moderate"
            ELSE IF location_type = "suburban" THEN "moderate"
            ELSE "moderate-high"
        condition == Lower(Get(p, "condition", "fair"))
        maintenance_risk ==
            IF condition = "excellent" THEN "low"
            ELSE IF condition = "good" THEN "low-moderate"
            ELSE IF condition = "fair" THEN "moderate"
            ELSE "high"
        strengths ==
            When(location_type = "downtown", "Prime location with high walkability")
            \o When(condition = "excellent" \/ condition = "good",
                    "Well-maintained property requiring minimal repairs")
            \o When(age < 5, "Modern construction with updated systems")
            \o When(beds >= 4, "Spacious layout suitable for families or rental market")
            \o When(Len(r.amenities) >= 4, "Excellent amenities and facilities")
        weaknesses ==
            When(age > 20, "Older property may require significant maintenance")
            \o When(condition = "needs_repair" \/ condition = "poor",
                    "Property needs repairs before occupancy")
            \o When(location_type = "rural", "Remote location may limit tenant pool")
            \o When(roi_percentage[1] < 5 * roi_percentage[2],
                    "Below-average rental yield compared to market")
        roi_rounded == RoundHalfEven(100 * roi_percentage[1], roi_percentage[2])
    IN  IF QIsZero(estimated_valuation)
        THEN \* line 111 divides by estimated_valuation
             Raised("ZeroDivisionError")
        ELSE Returned(
          [basic_info |->
              [address |-> property_name, bedrooms |-> beds, bathrooms |-> baths,
               sqft |-> sqft, age_years |-> age, location_type |-> location_type,
               condition |-> condition,
               neighborhood_rating |-> Get(p, "neighborhood_rating", "average")],
           valuation |->
              [estimated_value |-> QRound(estimated_valuation, 100),
               price_per_sqft |-> QRound(QMul(estimated_valuation, <<1, sqft>>), 100),
               valuation_date |-> "now",
               confidence_score |-> r.confidence],
           market_analysis |->
              [comparable_properties |->
                  [k \in 1..3 |-> Comparable(k, estimated_valuation, sqft, beds,
                                             r.comparables[k])],
               market_trend |-> IF r.trend > 3 THEN "appreciating" ELSE "stable",
               market_growth_rate |-> r.growth,
               location_desirability |-> Get(p, "neighborhood_rating", "average")],
           investment_analysis |->
              [annual_rental_potential |-> QRound(annual_rental, 100),
               annual_appreciation |-> QRound(property_appreciation, 100),
               total_annual_return |-> QRound(total_annual_return, 100),
               roi_percentage |-> roi_rounded,
               roi_category |-> band.roi_category,
               investment_score |-> band.investment_score,
               recommendation |-> band.recommendation,
               \* estimated_valuation / total_annual_return, 1 decimal
               payback_period_years |-> RoundHalfEven(10 * ratio[2], ratio[1])],
           risk_assessment |->
              [location_risk |-> location_risk,
               maintenance_risk |-> maintenance_risk,
               market_risk |-> "low-moderate",
               liquidity_risk |-> IF location_type \in {"downtown", "urban"}
                                  THEN "low" ELSE "moderate",
               overall_risk |-> "moderate"],
           property_features |->
              [amenities |-> r.amenities,
               nearby_facilities |-> r.facilities,
               strengths |-> IF strengths # <<>> THEN Prefix(strengths, 3)
                             ELSE <<"Good investment potential">>,
               weaknesses |-> IF weaknesses # <<>> THEN Prefix(weaknesses, 2)
                              ELSE <<"Monitor market trends">>],
           recommendations |->
              [headline |-> RecommendationHeadline(band.investment_score),
               annual_return_1dp |-> RoundHalfEven(10 * roi_percentage[1],
                                                   roi_percentage[2]),
               roi_category |-> band.roi_category],
           future_projections |->
              \* estimated_valuation * (1 + appreciation_rate) ** 5 is kept as
              \* its operands
              [projected_value_5years |->
                  [present |-> QRound(estimated_valuation, 100),
                   rate |-> r.appreciation_rate, years |-> 5],
               projected_rental_income_5years |->
                  QRound(QMul(annual_rental, <<5, 1>>), 100)],
           analysis_summary |->
              [property_name |-> property_name,
               estimated_value |-> QRound(estimated_valuation, 100),
               investment_recommendation |-> band.recommendation,
               roi |-> roi_rounded,
               investment_score |-> band.investment_score,
               analysis_date |-> "now",
               status |-> "completed"]])

(***************************************************************************)
(* Inputs drawn by the specifications.                                     *)
(***************************************************************************)
NoValue == [exc |-> "pending", val |-> 0, inf |-> FALSE]
NoCall == [fn |-> "none"]
NoReturn == [pending |-> TRUE]
NoAnalysis == <<>>
NoValidation == [valid |-> FALSE, errors |-> <<"pending">>]
NoProperty == [address |-> <<>>]
NoDraw == [variance |-> <<1, 1>>]
NoEnvelope == [status |-> "pending"]

LocationsDrawn == Range(VALID_LOCATION_TYPES) \cup {"Downtown", "moon"}
ConditionsDrawn == Range(VALID_CONDITIONS) \cup {"POOR"}
NeighborhoodsDrawn == Range(VALID_NEIGHBORHOOD_RATINGS)
SqftDrawn == {500, 501, 2000, MaxSqftDrawn}
AgesDrawn == {0, 1, 10, 25, 26, 70, MaxAgeDrawn}

MainStreet == <<"1", "2", " ", "M", "a", "i", "n", " ", "S", "t">>

\* the dictionaries passed to calculate_base_valuation
ValuationInputs ==
    [sqft : SqftDrawn, location_type : LocationsDrawn,
     neighborhood_rating : NeighborhoodsDrawn, condition : ConditionsDrawn,
     age_years : AgesDrawn]
    \cup {[sqft |-> 1000], [location_type |-> "rural", age_years |-> 40]}

\* the dictionaries passed to RealEstateAnalysisEngine.analyze_property
EngineInputs ==
    [address : {MainStreet}, bedrooms : {3}, bathrooms : {25},
     sqft : {0, 500, 501, MaxSqftDrawn},
     location_type : Range(VALID_LOCATION_TYPES) \cup {"Downtown"},
     neighborhood_rating : NeighborhoodsDrawn,
     condition : Range(VALID_CONDITIONS),
     age_years : {0, 25, MaxAgeDrawn}]

\* what the random source yields during one analyze_property call:
\* random.uniform(0.9, 1.1), uniform(0.05, 0.08), uniform(0.03, 0.06), and
\* the presentation draws (comparables, confidence, trend, growth, samples)
PresentationDraws ==
    {[comparables |->
          <<[price_factor |-> <<19, 20>>, sqft_delta |-> -200, beds_delta |-> -1],
            [price_factor |-> <<1, 1>>, sqft_delta |-> 0, beds_delta |-> 0],
            [price_factor |-> <<21, 20>>, sqft_delta |-> 200, beds_delta |-> 1]>>,
      confidence |-> 820, trend |-> 3, growth |-> 20,
      amenities |-> <<"Swimming Pool", "Gym", "Parking", "Garden", "Balcony">>,
      facilities |-> <<"Schools", "Hospital", "Shopping Mall", "Metro Station">>],
     [comparables |->
          <<[price_factor |-> <<21, 20>>, sqft_delta |-> 17, beds_delta |-> 1],
            [price_factor |-> <<99, 100>>, sqft_delta |-> -3, beds_delta |-> 0],
            [price_factor |-> <<19, 20>>, sqft_delta |-> 0, beds_delta |-> -1]>>,
      confidence |-> 980, trend |-> 9, growth |-> 60,
      amenities |-> <<"AC", "Water Tank", "Solar Panels", "Home Theater", "Gym">>,
      facilities |-> <<"Parks", "Restaurants", "Banks", "Libraries">>]}

VarianceDrawn == {<<9, 10>>, <<1, 1>>, <<11, 10>>}
\* the rental yield is drawn from 1% upwards
RentalYieldDrawn_from_one_percent == {<<1, 100>>, <<13, 200>>, <<2, 25>>}
RentalYieldDrawn == {<<1, 20>>, <<13, 200>>, <<2, 25>>}
AppreciationDrawn == {<<3, 100>>, <<9, 200>>, <<3, 50>>}

RandomDraw(v, y, a, pres) ==
    [variance |-> v, rental_yield |-> y, appreciation_rate |-> a,
     comparables |-> pres.comparables, confidence |-> pres.confidence,
     trend |-> pres.trend, growth |-> pres.growth,
     amenities |-> pres.amenities, facilities |-> pres.facilities]

RandomDraws ==
    {RandomDraw(v, y, a, pres) : v \in VarianceDrawn, y \in RentalYieldDrawn,
                                 a \in AppreciationDrawn, pres \in PresentationDraws}

\* the helper calls: amounts in dollars, ROI in hundredths of a percent,
\* condition_rating in hundredths
CalcCalls ==
    [fn : {"calculate_base_valuation"}, a : ValuationInputs]
    \cup [fn : {"calculate_roi"}, a : {-1000, 0, 1, 25000}, b : {-1, 0, 3, 7, 300000}]
    \cup [fn : {"calculate_payback_period"}, a : {0, 1, 100, 300000},
          b : {-1000, 0, 3, 7, 25000}]
    \cup [fn : {"calculate_price_per_sqft"}, a : {0, 1, 100, 250000},
          b : {-5, 0, 3, 7, MaxSqftDrawn}]
    \cup [fn : {"calculate_investment_score"},
          a : {-100000, -1, 0, 125, 500, 833, 1000, 1250, 100000},
          b : {0, 99999, 100000, 200000, 600000, 600001, 999999, 1000000},
          c : {-100, 0, 25, 50, 100, 500}]
    \cup [fn : {"calculate_risk_level"}, a : LocationsDrawn,
          b : ConditionsDrawn \cup {"broken"},
          c : {0, 5, 30, 31, 50, 51, 70, MaxAgeDrawn}]
    \cup [fn : {"analyze_property"}, a : EngineInputs]

(***************************************************************************)
(* SpecCalc: one call of a calculation helper or of the engine.            *)
(***************************************************************************)
\* the human-intervention objects as constructed and not used
IdleApprovalWorkflow ==
    /\ approvals = <<>>
    /\ approval_call = NoCall
    /\ approvals_before = <<>>
    /\ approval_ret = NoReturn

IdleFeedbackHandler ==
    /\ feedback_history = <<>>
    /\ feedback_call = NoCall
    /\ feedback_before = <<>>
    /\ feedback_ret = NoReturn

IdleValidationManager ==
    /\ analysis_given = NoAnalysis
    /\ validation_rets = <<>>

IdleWorkbench ==
    /\ clock = 0
    /\ IdleApprovalWorkflow
    /\ IdleFeedbackHandler
    /\ caller_analysis = NoAnalysis
    /\ IdleValidationManager

IdleRest ==
    /\ IdleWorkbench
    /\ property_data = NoProperty
    /\ validation = NoValidation
    /\ validator_runs = {}
    /\ engine_runs = <<>>
    /\ agent_plan = <<>>
    /\ orch_result = NoValue
    /\ envelope = NoEnvelope

InitCalc ==
    /\ pc = "called"
    /\ call \in CalcCalls
    /\ ret = NoValue
    /\ analysis = NoValue
    /\ rnd = NoDraw
    /\ IdleRest

Helper(fn, result) ==
    /\ pc = "called"
    /\ call.fn = fn
    /\ ret' = result
    /\ pc' = "returned"
    /\ UNCHANGED <<property_data, rnd, analysis, call, validation,
                   validator_runs, engine_runs, agent_plan, orch_result,
                   envelope, workbench>>

CallBaseValuation ==
    Helper("calculate_base_valuation", calculate_base_valuation(call.a))

CallPricePerSqft ==
    Helper("calculate_price_per_sqft", calculate_price_per_sqft(call.a, call.b))

CallRoi == Helper("calculate_roi", calculate_roi(call.a, call.b))

CallPaybackPeriod ==
    Helper("calculate_payback_period", calculate_payback_period(call.a, call.b))

CallInvestmentScore ==
    Helper("calculate_investment_score",
           calculate_investment_score(call.a, call.b, call.c))

CallRiskLevel ==
    Helper("calculate_risk_level", calculate_risk_level(call.a, call.b, call.c))

CallAnalyzeProperty ==
    /\ pc = "called"
    /\ call.fn = "analyze_property"
    /\ \E r \in RandomDraws :
          /\ rnd' = r
          /\ analysis' = Engine_analyze_property(call.a, r)
    /\ pc' = "returned"
    /\ UNCHANGED <<property_data, call, ret, validation, validator_runs,
                   engine_runs, agent_plan, orch_result, envelope,
                   workbench>>

NextCalc ==
    \/ CallBaseValuation
    \/ CallPricePerSqft
    \/ CallRoi
    \/ CallPaybackPeriod
    \/ CallInvestmentScore
    \/ CallRiskLevel
    \/ CallAnalyzeProperty

SpecCalc == InitCalc /\ [][NextCalc]_vars

(***************************************************************************)
(* Properties of the engine and the calculation helpers (SpecCalc).        *)
(***************************************************************************)
EngineReturned == pc = "returned" /\ call.fn = "analyze_property"
HelperReturned(fn) == pc = "returned" /\ call.fn = fn

\* the ranges and enumerations of a valid PropertyInput
ValidPropertyInput(p) ==
    /\ p.sqft >= 500 /\ p.sqft <= 1000000
    /\ p.age_years >= 0 /\ p.age_years <= 200
    /\ p.location_type \in {"downtown", "urban", "suburban", "rural"}
    /\ p.condition \in {"excellent", "good", "fair", "needs_repair", "poor"}
    /\ p.neighborhood_rating \in {"excellent", "good", "average", "developing", "poor"}

\* C1: for every valid PropertyInput and every jitter factor drawn from
\* [0.9, 1.1], analyze_property returns a record whose estimated_value is
\* strictly positive.
C1_EstimatedValuePositive ==
    (EngineReturned /\ ValidPropertyInput(call.a))
        => /\ analysis.exc = "none"
           /\ analysis.val.valuation.estimated_value > 0

\* the cheapest valid property under the lowest jitter has been valued
C1_Witness ==
    /\ EngineReturned
    /\ call.a.sqft = 500 /\ call.a.location_type = "rural"
    /\ call.a.condition = "poor" /\ call.a.neighborhood_rating = "poor"
    /\ call.a.age_years >= 25
    /\ rnd.variance = <<9, 10>>
    /\ analysis.exc = "none"
    /\ analysis.val.valuation.estimated_value = 708750

\* the multiplier tables as the formula of the valuation states them (keys
\* are looked up in lower case, an unknown key gives 1.0)
StatedLocationMultiplier(k) ==
    CASE k = "downtown" -> <<14, 10>> [] k = "urban" -> <<12, 10>>
      [] k = "suburban" -> <<10, 10>> [] k = "rural" -> <<7, 10>>
      [] OTHER -> <<1, 1>>
StatedNeighborhoodMultiplier(k) ==
    CASE k = "excellent" -> <<130, 100>> [] k = "good" -> <<110, 100>>
      [] k = "average" -> <<100, 100>> [] k = "developing" -> <<85, 100>>
      [] k = "poor" -> <<60, 100>> [] OTHER -> <<1, 1>>
StatedConditionMultiplier(k) ==
    CASE k = "excellent" -> <<120, 100>> [] k = "good" -> <<110, 100>>
      [] k = "fair" -> <<100, 100>> [] k = "needs_repair" -> <<75, 100>>
      [] k = "poor" -> <<50, 100>> [] OTHER -> <<1, 1>>

\* sqft x 150 x location x neighborhood x condition x max(0.5, 1 - 0.02 age)
StatedValuation(p) ==
    QMul(QMul(QMul(QMul(QInt(p.sqft * 150),
        StatedLocationMultiplier(Lower(p.location_type))),
        StatedNeighborhoodMultiplier(Lower(p.neighborhood_rating))),
        StatedConditionMultiplier(Lower(p.condition))),
        IF 100 - 2 * p.age_years > 50 THEN <<100 - 2 * p.age_years, 100>>
        ELSE <<50, 100>>)

FullValuationInput(p) ==
    DOMAIN p = {"sqft", "location_type", "neighborhood_rating", "condition",
                "age_years"}

\* cents c is exactly the amount x
ExactlyCents(c, x) ==
    /\ (100 * x.n) % x.d = 0
    /\ c = 100 * x.i + (100 * x.n) \div x.d

\* cents c is the amount x rounded to 2 decimals (no cent value is nearer)
NearestCents(c, x) ==
    2 * Abs((c - 100 * x.i) * x.d - 100 * x.n) <= x.d

TestProperty ==
    [sqft |-> 2000, location_type |-> "suburban",
     neighborhood_rating |-> "average", condition |-> "fair", age_years |-> 10]

\* C2 as stated: calculate_base_valuation(p) equals the product exactly, it
\* is 240,000 for the test property, and at age 0 the downtown value is
\* exactly 1.4 times the suburban value.
C2_ExactProduct ==
    (HelperReturned("calculate_base_valuation") /\ FullValuationInput(call.a))
        => /\ ret.exc = "none"
           /\ ExactlyCents(ret.val, StatedValuation(call.a))
           /\ call.a = TestProperty => ret.val = 24000000
           /\ (call.a.location_type = "suburban" /\ call.a.age_years = 0)
                => 10 * calculate_base_valuation(
                            [call.a EXCEPT !.location_type = "downtown"]).val
                   = 14 * ret.val

\* C2 (amended): calculate_base_valuation(p) is the product rounded to 2
\* decimals, it is 240,000 for the test property, and at age 0 the downtown
\* value is 1.4 times the suburban value to within 0.02.
C2_RoundedProduct ==
    (HelperReturned("calculate_base_valuation") /\ FullValuationInput(call.a))
        => /\ ret.exc = "none"
           /\ NearestCents(ret.val, StatedValuation(call.a))
           /\ call.a = TestProperty => ret.val = 24000000
           /\ (call.a.location_type = "suburban" /\ call.a.age_years = 0)
                => Abs(10 * calculate_base_valuation(
                                [call.a EXCEPT !.location_type = "downtown"]).val
                       - 14 * ret.val) <= 20

\* a valuation whose product is not a whole number of cents was returned
C2_Witness ==
    /\ HelperReturned("calculate_base_valuation")
    /\ call.a = [sqft |-> 501, location_type |-> "downtown",
                 neighborhood_rating |-> "developing",
                 condition |-> "needs_repair", age_years |-> 1]
    /\ ret.val = 6572995

RiskBands == {"low", "low-moderate", "moderate", "moderate-high", "high"}

\* the band of (location weight + condition weight + age weight) / 3
StatedRiskBand(location, condition, age) ==
    LET lw == CASE location = "downtown" -> 2 [] location = "urban" -> 2
                [] location = "suburban" -> 3 [] location = "rural" -> 4
        cw == CASE condition = "excellent" -> 1 [] condition = "good" -> 2
                [] condition = "fair" -> 3 [] condition = "needs_repair" -> 4
                [] condition = "poor" -> 5
        aw == IF age > 50 THEN 3 ELSE IF age > 30 THEN 2 ELSE 0
        \* thirty times the average, against 45, 75, 105, 135
        avg30 == 10 * (lw + cw + aw)
    IN  IF avg30 < 45 THEN "low"
        ELSE IF avg30 < 75 THEN "low-moderate"
        ELSE IF avg30 < 105 THEN "moderate"
        ELSE IF avg30 < 135 THEN "moderate-high"
        ELSE "high"

\* C3: calculate_risk_level returns the band of the averaged weights, one of
\* the five bands always; (downtown, excellent, 5) is low or low-moderate and
\* (rural, poor, 70) is moderate-high or high.
C3_RiskLevelBand ==
    HelperReturned("calculate_risk_level")
        => /\ ret.exc = "none"
           /\ ret.val \in RiskBands
           /\ (call.a \in {"downtown", "urban", "suburban", "rural"}
               /\ call.b \in {"excellent", "good", "fair", "needs_repair", "poor"})
                => ret.val = StatedRiskBand(call.a, call.b, call.c)
           /\ (call.a = "downtown" /\ call.b = "excellent" /\ call.c = 5)
                => ret.val \in {"low", "low-moderate"}
           /\ (call.a = "rural" /\ call.b = "poor" /\ call.c = 70)
                => ret.val \in {"moderate-high", "high"}

\* the riskiest test case has been classified
C3_Witness ==
    /\ HelperReturned("calculate_risk_level")
    /\ call.a = "rural" /\ call.b = "poor" /\ call.c = 70
    /\ ret.val = "moderate-high"

\* C4: calculate_investment_score returns an integer in 1..10 for every roi,
\* valuation and condition_rating, and every record analyze_property returns
\* has investment_score in 1..10 and confidence_score in [0, 1].
C4_ScoresInRange ==
    /\ HelperReturned("calculate_investment_score")
         => ret.exc = "none" /\ ret.val \in 1..10
    /\ (EngineReturned /\ analysis.exc = "none")
         => /\ analysis.val.investment_analysis.investment_score \in 1..10
            /\ analysis.val.analysis_summary.investment_score \in 1..10
            /\ analysis.val.valuation.confidence_score >= 0
            /\ analysis.val.valuation.confidence_score <= 1000

\* a strongly negative ROI has been scored, and clamped to 1
C4_Witness ==
    /\ HelperReturned("calculate_investment_score")
    /\ call.a = -100000 /\ call.c = -100
    /\ ret.val = 1

\* C5: in every returned record annual_rental_potential plus
\* annual_appreciation equals total_annual_return exactly, each as reported
\* (rounded to 2 decimals on its own).
C5_ReturnComponentsSum ==
    (EngineReturned /\ analysis.exc = "none")
        => analysis.val.investment_analysis.annual_rental_potential
           + analysis.val.investment_analysis.annual_appreciation
           = analysis.val.investment_analysis.total_annual_return

\* C6: a property with estimated value <= 0 or floor area <= 0 is analysed
\* without failure and the record has roi_percentage 0, payback period
\* +infinity and price_per_sqft 0.
C6_TotalOnZeroArea ==
    (EngineReturned /\ call.a.sqft <= 0)
        => /\ analysis.exc = "none"
           /\ analysis.val.investment_analysis.roi_percentage = 0
           /\ analysis.val.investment_analysis.payback_period_years = Infinity
           /\ analysis.val.valuation.price_per_sqft = 0

\* res is num / den rounded to the nearest integer (den > 0)
NearestQuotient(res, num, den) == 2 * Abs(res * den - num) <= den

C7_Sentinels ==
    /\ HelperReturned("calculate_roi")
         => /\ ret.exc = "none"
            /\ call.b <= 0 => (ret.val = 0 /\ ~ret.inf)
            /\ call.b > 0 => NearestQuotient(ret.val, 10000 * call.a, call.b)
            /\ (call.a = 25000 /\ call.b = 300000) => ret.val = 833
    /\ HelperReturned("calculate_payback_period")
         => /\ ret.exc = "none"
            /\ call.b <= 0 => ret.inf
            /\ call.b > 0 => (~ret.inf /\ NearestQuotient(ret.val, 100 * call.a, call.b))
            /\ (call.a = 300000 /\ call.b = 25000) => ret.val = 1200
    /\ HelperReturned("calculate_price_per_sqft")
         => /\ ret.exc = "none"
            /\ call.b <= 0 => (ret.val = 0 /\ ~ret.inf)

\* C7 as stated: the helpers return their sentinel on a zero or negative
\* divisor, ROI and payback are the quotients to 2 decimals, and
\* calculate_price_per_sqft(v, s) is v / s itself when s > 0.
C7_PricePerSqftExact ==
    /\ C7_Sentinels
    /\ (HelperReturned("calculate_price_per_sqft") /\ call.b > 0)
         => ret.val * call.b = 100 * call.a

\* C7 (amended): as stated, except that calculate_price_per_sqft(v, s) is
\* v / s rounded to 2 decimals when s > 0.
C7_PricePerSqftRounded ==
    /\ C7_Sentinels
    /\ (HelperReturned("calculate_price_per_sqft") /\ call.b > 0)
         => NearestQuotient(ret.val, 100 * call.a, call.b)

\* a price per square foot that is not a whole number of cents was returned
C7_Witness ==
    /\ HelperReturned("calculate_price_per_sqft")
    /\ call.a = 100 /\ call.b = 3
    /\ ret.val = 3333

StatedSections ==
    {"analysis_summary", "basic_info", "valuation", "investment_analysis",
     "market_analysis", "risk_assessment", "property_features",
     "future_projections"}

\* C12: on a valid property the engine returns a record whose top-level
\* status is "success" and which contains the sections analysis_summary,
\* basic_info, valuation, investment_analysis, market_analysis,
\* risk_assessment, property_features and future_projections.
C12_EngineRecordStatusSuccess ==
    (EngineReturned /\ ValidPropertyInput(call.a))
        => /\ analysis.exc = "none"
           /\ StatedSections \subseteq DOMAIN analysis.val
           /\ "status" \in DOMAIN analysis.val
           /\ analysis.val.status = "success"

(***************************************************************************)
(* SpecValidator: one call of validate_property_input.                     *)
(***************************************************************************)
\* the record restricted to the field names in keep
Restrict(p, keep) == [f \in keep |-> p[f]]

AddressesDrawn ==
    {<<>>, <<" ", " ", " ">>, <<" ", "a", "b", "c", " ", " ">>,
     <<" ", "5", " ", "E", "l", "m", " ">>, MainStreet}

FullPropertiesDrawn ==
    [address : AddressesDrawn, bedrooms : {0, 1, 20, 25},
     bathrooms : {4, 5, 200, 201}, sqft : {100, 499, 500, 1000000, 1000001},
     age_years : {-1, 0, MaxAgeDrawn, MaxAgeDrawn + 1},
     location_type : {"urban", "Downtown", "moon"},
     condition : {"good", "POOR", "broken"},
     neighborhood_rating : {"average", "Good"}]

SampleProperty ==
    [address |-> MainStreet, bedrooms |-> 3, bathrooms |-> 25, sqft |-> 2500,
     age_years |-> 10, location_type |-> "urban", condition |-> "good",
     neighborhood_rating |-> "good"]

ValidatorInputs ==
    FullPropertiesDrawn
    \cup {Restrict(SampleProperty, keep) : keep \in SUBSET Range(required_fields)}
    \cup {[SampleProperty EXCEPT !.bedrooms = 25, !.sqft = 100]}

InitValidator ==
    /\ IdleWorkbench
    /\ pc = "called"
    /\ property_data \in ValidatorInputs
    /\ validation = NoValidation
    /\ validator_runs = {}
    /\ call = NoCall
    /\ ret = NoValue
    /\ analysis = NoValue
    /\ rnd = NoDraw
    /\ engine_runs = <<>>
    /\ agent_plan = <<>>
    /\ orch_result = NoValue
    /\ envelope = NoEnvelope

ValidatePropertyInput ==
    /\ pc = "called"
    /\ validation' = validate_property_input(property_data)
    /\ validator_runs' = validator_runs \cup {property_data}
    /\ pc' = "returned"
    /\ UNCHANGED <<property_data, rnd, analysis, call, ret, engine_runs,
                   agent_plan, orch_result, envelope,
                   workbench>>

NextValidator == ValidatePropertyInput

SpecValidator == InitValidator /\ [][NextValidator]_vars

(***************************************************************************)
(* Properties of the input validator (SpecValidator).                      *)
(***************************************************************************)
AllFieldsPresent(p) == DOMAIN p = Range(required_fields)

\* the fields of p (all present) that violate their range; a categorical
\* field is matched by member(value, enumeration)
ViolatedFields(p, member(_, _)) ==
    {f \in Range(required_fields) :
        CASE f = "address" -> Len(Strip(p.address)) < 5
          [] f = "bedrooms" -> p.bedrooms \notin 1..20
          [] f = "bathrooms" -> p.bathrooms < 5 \/ p.bathrooms > 200
          [] f = "sqft" -> p.sqft \notin 500..1000000
          [] f = "age_years" -> p.age_years \notin 0..200
          [] f = "location_type" ->
                ~member(p.location_type, {"downtown", "urban", "suburban", "rural"})
          [] f = "condition" ->
                ~member(p.condition,
                        {"excellent", "good", "fair", "needs_repair", "poor"})
          [] OTHER ->
                ~member(p.neighborhood_rating,
                        {"excellent", "good", "average", "developing", "poor"})}

ExactMember(v, enum) == v \in enum
CaseInsensitiveMember(v, enum) == Lower(v) \in enum

ValidatorContract(member(_, _)) ==
    pc = "returned"
        => /\ validation.valid
              <=> (AllFieldsPresent(property_data)
                   /\ ViolatedFields(property_data, member) = {})
           /\ validation.valid => validation.errors = <<>>
           /\ ~validation.valid => Len(validation.errors) >= 1
           /\ (AllFieldsPresent(property_data) /\ ~validation.valid)
                => Len(validation.errors)
                   = Cardinality(ViolatedFields(property_data, member))
           /\ (AllFieldsPresent(property_data)
               /\ property_data.bedrooms = 25 /\ property_data.sqft = 100)
                => Len(validation.errors) >= 2

ApiRequests ==
    [address : {MainStreet}, bedrooms : {3, 25}, bathrooms : {25},
     sqft : {0, 100, 2000}, age_years : {10},
     location_type : {"urban", "moon"}, condition : {"good"},
     neighborhood_rating : {"good"}]

AgentOutcomes == {"success", "error", "raise"}

InitApi ==
    /\ IdleWorkbench
    /\ pc = "endpoint"
    /\ call \in [fn : {"POST /analyze"}, a : ApiRequests]
    /\ property_data = NoProperty
    /\ rnd = NoDraw
    /\ analysis = NoValue
    /\ ret = NoValue
    /\ validation = NoValidation
    /\ validator_runs = {}
    /\ engine_runs = <<>>
    /\ agent_plan = <<>>
    /\ orch_result = NoValue
    /\ envelope = NoEnvelope

\* the endpoint calls RealEstateIntelligence.analyze_property, which copies
\* the eight request fields into property_data and calls the orchestrator
EndpointAnalyze ==
    /\ pc = "endpoint"
    /\ property_data' = [f \in Range(required_fields) |-> call.a[f]]
    /\ pc' = "orchestrator"
    /\ UNCHANGED <<rnd, analysis, call, ret, validation, validator_runs,
                   engine_runs, agent_plan, orch_result, envelope,
                   workbench>>

\* PropertyOrchestrator.analyze_property, step 1: the engine; an exception
\* goes to the outer handler, which returns an error dictionary
OrchestratorEngine ==
    /\ pc = "orchestrator"
    /\ engine_runs' = Append(engine_runs, property_data)
    /\ \E r \in RandomDraws :
          /\ rnd' = r
          /\ analysis' = Engine_analyze_property(property_data, r)
    /\ IF analysis'.exc = "none"
       THEN /\ pc' = "valuation_agent"
            /\ UNCHANGED orch_result
       ELSE /\ pc' = "respond"
            /\ orch_result' =
                  Returned([status |-> "error", error |-> analysis'.exc,
                            message |-> "Analysis failed. Please try again."])
    /\ UNCHANGED <<property_data, call, ret, validation, validator_runs,
                   agent_plan, envelope,
                   workbench>>

\* the three advisory calls under the outer try block only: an exception of
\* one of them ends the orchestration with the error dictionary
AdvisoryCall_outer_try_only(at, insight, next) ==
    /\ pc = at
    /\ \E outcome \in AgentOutcomes :
          /\ agent_plan' = Append(agent_plan, outcome)
          /\ analysis' =
                IF outcome = "success"
                THEN [analysis EXCEPT !.val = (insight :> "analysis text") @@ @]
                ELSE analysis
          /\ pc' = IF outcome = "raise" THEN "respond" ELSE next
          /\ orch_result' =
                IF outcome = "raise"
                THEN Returned([status |-> "error", error |-> "Exception",
                               message |-> "Analysis failed. Please try again."])
                ELSE IF next = "respond" THEN Returned(analysis'.val)
                ELSE orch_result
    /\ UNCHANGED <<property_data, rnd, call, ret, validation, validator_runs,
                   engine_runs, envelope,
                   workbench>>

\* one advisory call inside its own try block: only a result with status
\* "success" adds its insight key to mock_analysis
AdvisoryCall(at, insight, next) ==
    /\ pc = at
    /\ \E outcome \in AgentOutcomes :
          /\ agent_plan' = Append(agent_plan, outcome)
          /\ analysis' =
                IF outcome = "success"
                THEN [analysis EXCEPT !.val = (insight :> "analysis text") @@ @]
                ELSE analysis
    /\ pc' = next
    /\ orch_result' = IF next = "respond" THEN Returned(analysis'.val)
                      ELSE orch_result
    /\ UNCHANGED <<property_data, rnd, call, ret, validation, validator_runs,
                   engine_runs, envelope,
                   workbench>>

ValuationAgentCall ==
    AdvisoryCall("valuation_agent", "agno_valuation_insight", "investment_agent")

InvestmentAgentCall ==
    AdvisoryCall("investment_agent", "agno_investment_insight", "market_agent")

MarketAgentCall ==
    AdvisoryCall("market_agent", "agno_market_insight", "respond")

\* RealEstateIntelligence.analyze_property returns what the orchestrator
\* returned (or its own error dictionary if the orchestrator raised)
IntelligenceResult ==
    IF orch_result.exc = "none" THEN Returned(orch_result.val)
    ELSE Returned([status |-> "error", error |-> orch_result.exc,
                   analysis_summary |-> [property_name |-> call.a.address,
                                         status |-> "failed"]])

\* the endpoint wraps the result (its handler turns an exception into an
\* error envelope)
EndpointRespond ==
    /\ pc = "respond"
    /\ envelope' =
          IF IntelligenceResult.exc = "none"
          THEN [status |-> "success", analysis |-> IntelligenceResult.val,
                timestamp |-> "now"]
          ELSE [status |-> "error", message |-> IntelligenceResult.exc,
                timestamp |-> "now"]
    /\ pc' = "done"
    /\ UNCHANGED <<property_data, rnd, analysis, call, ret, validation,
                   validator_runs, engine_runs, agent_plan, orch_result,
                   workbench>>

NextApi ==
    \/ EndpointAnalyze
    \/ OrchestratorEngine
    \/ ValuationAgentCall
    \/ InvestmentAgentCall
    \/ MarketAgentCall
    \/ EndpointRespond

SpecApi == InitApi /\ [][NextApi]_vars

(***************************************************************************)
(* Properties of the request pipeline (SpecApi).                           *)
(***************************************************************************)
\* C9: the input validator runs before the engine: the engine is invoked
\* only on inputs the validator accepted, and a request the validator
\* rejects is answered with a list of messages without reaching the engine.
C9_ValidatorBeforeEngine ==
    /\ \A k \in DOMAIN engine_runs :
          /\ engine_runs[k] \in validator_runs
          /\ validate_property_input(engine_runs[k]).valid
    /\ (pc = "done" /\ ~validate_property_input(call.a).valid)
          => /\ engine_runs = <<>>
             /\ envelope.status = "error"

\* C10: when the analysis fails the endpoint returns an envelope with status
\* "error" and a message, and an envelope has status "success" only when it
\* carries an analysis that was actually produced.
C10_ErrorEnvelope ==
    pc = "done"
        => /\ analysis.exc # "none"
                => (envelope.status = "error" /\ "message" \in DOMAIN envelope)
           /\ envelope.status = "success"
                => /\ analysis.exc = "none"
                   /\ "valuation" \in DOMAIN envelope.analysis

(***************************************************************************)
(* Properties of the advisory calls of the orchestrator (SpecApi).         *)
(***************************************************************************)
InsightKeys ==
    <<"agno_valuation_insight", "agno_investment_insight",
      "agno_market_insight">>

\* the insight keys of the advisory calls that ended with status "success"
InsightsOf(plan) == {InsightKeys[k] : k \in {j \in DOMAIN plan : plan[j] = "success"}}

\* the orchestrator got past the engine and finished its three try blocks
OrchestratorReturnedAnalysis ==
    pc \in {"respond", "done"} /\ analysis.exc = "none"

\* C11: whatever way the three advisory calls end (success, error status,
\* exception), the orchestrator attempts all three, returns the engine's
\* analysis with every deterministic section unchanged, and adds an insight
\* entry for exactly the calls that succeeded; the result is never an error.
C11_AdvisoryFailuresAbsorbed ==
    OrchestratorReturnedAnalysis =>
        LET base == Engine_analyze_property(property_data, rnd).val
            result == orch_result.val
        IN  /\ Len(agent_plan) = 3
            /\ orch_result.exc = "none"
            /\ DOMAIN result = DOMAIN base \cup InsightsOf(agent_plan)
            /\ DOMAIN base \cap Range(InsightKeys) = {}
            /\ \A section \in DOMAIN base : result[section] = base[section]
            /\ "status" \notin DOMAIN result

C11_Witness ==
    /\ pc = "done"
    /\ agent_plan = <<"raise", "success", "error">>
    /\ DOMAIN orch_result.val \cap Range(InsightKeys)
          = {"agno_investment_insight"}
    /\ orch_result.val.valuation.estimated_value > 0

(***************************************************************************)
(* human_intervention/approval_workflow.py: ApprovalWorkflow.              *)
(* approvals is the dict of the object: a function from the analysis ids   *)
(* that have a record to their records.  An Optional value is <<>> for     *)
(* None and <<v>> for v.  datetime.now() reads clock, which advances by    *)
(* one with every method call.                                             *)
(***************************************************************************)
\* the number of workbench method calls in one behaviour
MaxOps == 4

None == <<>>
Some(v) == <<v>>

\* class ApprovalStatus
PENDING == "pending"
REVIEWING == "reviewing"
APPROVED == "approved"
REJECTED == "rejected"
REVISIONS_NEEDED == "revisions_needed"

AnalysisIds == {"A-1", "A-2"}
Reviewers == {"alice", "bob"}
NotesDrawn == {"", "see notes"}

\* analyses handed to create_approval_request: an empty dictionary and one
\* with the three figures the request copies
EmptyDict == <<>>
AnalysesDrawn ==
    {EmptyDict,
     [valuation |-> [estimated_value |-> 45000000],
      investment_analysis |-> [investment_score |-> 7,
                               roi_percentage |-> 1050]]}

\* the calculation and request variables of a workbench that is used alone
IdlePipeline ==
    /\ pc = "idle"
    /\ property_data = NoProperty
    /\ rnd = NoDraw
    /\ analysis = NoValue
    /\ call = NoCall
    /\ ret = NoValue
    /\ validation = NoValidation
    /\ validator_runs = {}
    /\ engine_runs = <<>>
    /\ agent_plan = <<>>
    /\ orch_result = NoValue
    /\ envelope = NoEnvelope

\* {"error": f"Analysis {analysis_id} not found"}
NotFound(analysis_id) == [error |-> <<"Analysis ", analysis_id, " not found">>]

\* one method call of the ApprovalWorkflow object: what it leaves alone
ApprovalCall(c) ==
    /\ clock < MaxOps
    /\ clock' = clock + 1
    /\ approval_call' = c
    /\ approvals_before' = approvals
    /\ UNCHANGED <<pipeline, feedback_vars, validation_vars>>

\* a record that exists keeps its history and its revision counter
create_approval_request_keeps_history ==
    \E analysis_id \in AnalysisIds, a \in AnalysesDrawn :
        LET previous ==
                IF analysis_id \in DOMAIN approvals THEN approvals[analysis_id]
                ELSE [revision_count |-> 0, approval_history |-> <<>>]
            approval_request ==
                [analysis_id |-> analysis_id,
                 property_address |-> MainStreet,
                 status |-> PENDING,
                 created_at |-> clock,
                 requested_by |-> "System",
                 reviewed_by |-> None,
                 reviewed_at |-> None,
                 approval_notes |-> "",
                 estimated_value |->
                     Get(Get(a, "valuation", EmptyDict), "estimated_value", 0),
                 investment_score |->
                     Get(Get(a, "investment_analysis", EmptyDict),
                         "investment_score", 0),
                 roi_percentage |->
                     Get(Get(a, "investment_analysis", EmptyDict),
                         "roi_percentage", 0),
                 revision_count |-> previous.revision_count,
                 approval_history |-> previous.approval_history]
        IN  /\ ApprovalCall([fn |-> "create_approval_request",
                             analysis_id |-> analysis_id, analysis |-> a])
            /\ approvals' = (analysis_id :> approval_request) @@ approvals
            /\ approval_ret' = approval_request

create_approval_request ==
    \E analysis_id \in AnalysisIds, a \in AnalysesDrawn :
        LET approval_request ==
                [analysis_id |-> analysis_id,
                 property_address |-> MainStreet,
                 status |-> PENDING,
                 created_at |-> clock,
                 requested_by |-> "System",
                 reviewed_by |-> None,
                 reviewed_at |-> None,
                 approval_notes |-> "",
                 estimated_value |->
                     Get(Get(a, "valuation", EmptyDict), "estimated_value", 0),
                 investment_score |->
                     Get(Get(a, "investment_analysis", EmptyDict),
                         "investment_score", 0),
                 roi_percentage |->
                     Get(Get(a, "investment_analysis", EmptyDict),
                         "roi_percentage", 0),
                 revision_count |-> 0,
                 approval_history |-> <<>>]
        IN  /\ ApprovalCall([fn |-> "create_approval_request",
                             analysis_id |-> analysis_id, analysis |-> a])
            /\ approvals' = (analysis_id :> approval_request) @@ approvals
            /\ approval_ret' = approval_request

\* the failed lookup leaves an empty placeholder under the identifier
ReturnNotFound_leaves_placeholder(analysis_id) ==
    /\ approval_ret' = NotFound(analysis_id)
    /\ approvals' = (analysis_id :> EmptyDict) @@ approvals

\* the early return of the four transition methods
ReturnNotFound(analysis_id) ==
    /\ approval_ret' = NotFound(analysis_id)
    /\ UNCHANGED approvals

\* the new status is written to every record of the workflow
ReturnUpdated_status_to_all(analysis_id, approval) ==
    /\ approvals' =
          [k \in DOMAIN approvals |->
              IF k = analysis_id THEN approval
              ELSE [approvals[k] EXCEPT !.status = approval.status]]
    /\ approval_ret' = approval

\* the record is changed in place and returned
ReturnUpdated(analysis_id, approval) ==
    /\ approvals' = [approvals EXCEPT ![analysis_id] = approval]
    /\ approval_ret' = approval

\* the status is left as it was
submit_for_review_keeps_status ==
    \E analysis_id \in AnalysisIds, reviewer_name \in Reviewers :
        /\ ApprovalCall([fn |-> "submit_for_review",
                         analysis_id |-> analysis_id,
                         reviewer_name |-> reviewer_name])
        /\ IF analysis_id \notin DOMAIN approvals
           THEN ReturnNotFound(analysis_id)
           ELSE ReturnUpdated(analysis_id,
                    [approvals[analysis_id] EXCEPT
                        !.reviewed_by = Some(reviewer_name),
                        !.reviewed_at = Some(clock),
                        !.approval_history =
                            Append(@, [action |-> "submitted_for_review",
                                       by |-> reviewer_name,
                                       timestamp |-> clock])])

submit_for_review ==
    \E analysis_id \in AnalysisIds, reviewer_name \in Reviewers :
        /\ ApprovalCall([fn |-> "submit_for_review",
                         analysis_id |-> analysis_id,
                         reviewer_name |-> reviewer_name])
        /\ IF analysis_id \notin DOMAIN approvals
           THEN ReturnNotFound(analysis_id)
           ELSE ReturnUpdated(analysis_id,
                    [approvals[analysis_id] EXCEPT
                        !.status = REVIEWING,
                        !.reviewed_by = Some(reviewer_name),
                        !.reviewed_at = Some(clock),
                        !.approval_history =
                            Append(@, [action |-> "submitted_for_review",
                                       by |-> reviewer_name,
                                       timestamp |-> clock])])

\* the history entry replaces the last one instead of being appended
approve_analysis_replaces_last ==
    \E analysis_id \in AnalysisIds, reviewer_name \in Reviewers,
       approval_notes \in NotesDrawn :
        /\ ApprovalCall([fn |-> "approve_analysis",
                         analysis_id |-> analysis_id,
                         reviewer_name |-> reviewer_name,
                         notes |-> approval_notes])
        /\ IF analysis_id \notin DOMAIN approvals
           THEN ReturnNotFound(analysis_id)
           ELSE ReturnUpdated(analysis_id,
                    [approvals[analysis_id] EXCEPT
                        !.status = APPROVED,
                        !.reviewed_by = Some(reviewer_name),
                        !.reviewed_at = Some(clock),
                        !.approval_notes = approval_notes,
                        !.approval_history =
                            Append(SubSeq(@, 1, Len(@) - 1),
                                   [action |-> "approved",
                                    by |-> reviewer_name,
                                    notes |-> approval_notes,
                                    timestamp |-> clock])])

approve_analysis ==
    \E analysis_id \in AnalysisIds, reviewer_name \in Reviewers,
       approval_notes \in NotesDrawn :
        /\ ApprovalCall([fn |-> "approve_analysis",
                         analysis_id |-> analysis_id,
                         reviewer_name |-> reviewer_name,
                         notes |-> approval_notes])
        /\ IF analysis_id \notin DOMAIN approvals
           THEN ReturnNotFound(analysis_id)
           ELSE ReturnUpdated(analysis_id,
                    [approvals[analysis_id] EXCEPT
                        !.status = APPROVED,
                        !.reviewed_by = Some(reviewer_name),
                        !.reviewed_at = Some(clock),
                        !.approval_notes = approval_notes,
                        !.approval_history =
                            Append(@, [action |-> "approved",
                                       by |-> reviewer_name,
                                       notes |-> approval_notes,
                                       timestamp |-> clock])])

\* an approved record cannot be rejected any more
reject_analysis_guarded ==
    \E analysis_id \in AnalysisIds, reviewer_name \in Reviewers,
       rejection_reason \in NotesDrawn :
        /\ ApprovalCall([fn |-> "reject_analysis",
                         analysis_id |-> analysis_id,
                         reviewer_name |-> reviewer_name,
                         notes |-> rejection_reason])
        /\ IF analysis_id \notin DOMAIN approvals
           THEN ReturnNotFound(analysis_id)
           ELSE IF approvals[analysis_id].status = APPROVED
           THEN /\ approval_ret' = [error |-> <<"Analysis ", analysis_id,
                                              " is already approved">>]
                /\ UNCHANGED approvals
           ELSE ReturnUpdated(analysis_id,
                    [approvals[analysis_id] EXCEPT
                        !.status = REJECTED,
                        !.reviewed_by = Some(reviewer_name),
                        !.reviewed_at = Some(clock),
                        !.approval_notes = rejection_reason,
                        !.approval_history =
                            Append(@, [action |-> "rejected",
                                       by |-> reviewer_name,
                                       reason |-> rejection_reason,
                                       timestamp |-> clock])])

reject_analysis ==
    \E analysis_id \in AnalysisIds, reviewer_name \in Reviewers,
       rejection_reason \in NotesDrawn :
        /\ ApprovalCall([fn |-> "reject_analysis",
                         analysis_id |-> analysis_id,
                         reviewer_name |-> reviewer_name,
                         notes |-> rejection_reason])
        /\ IF analysis_id \notin DOMAIN approvals
           THEN ReturnNotFound(analysis_id)
           ELSE ReturnUpdated(analysis_id,
                    [approvals[analysis_id] EXCEPT
                        !.status = REJECTED,
                        !.reviewed_by = Some(reviewer_name),
                        !.reviewed_at = Some(clock),
                        !.approval_notes = rejection_reason,
                        !.approval_history =
                            Append(@, [action |-> "rejected",
                                       by |-> reviewer_name,
                                       reason |-> rejection_reason,
                                       timestamp |-> clock])])

\* the counter is left alone
request_revisions_no_count ==
    \E analysis_id \in AnalysisIds, reviewer_name \in Reviewers,
       revision_notes \in NotesDrawn :
        /\ ApprovalCall([fn |-> "request_revisions",
                         analysis_id |-> analysis_id,
                         reviewer_name |-> reviewer_name,
                         notes |-> revision_notes])
        /\ IF analysis_id \notin DOMAIN approvals
           THEN ReturnNotFound(analysis_id)
           ELSE ReturnUpdated(analysis_id,
                    [approvals[analysis_id] EXCEPT
                        !.status = REVISIONS_NEEDED,
                        !.reviewed_by = Some(reviewer_name),
                        !.reviewed_at = Some(clock),
                        !.approval_notes = revision_notes,
                        !.approval_history =
                            Append(@, [action |-> "revisions_requested",
                                       by |-> reviewer_name,
                                       notes |-> revision_notes,
                                       revision_count |->
                                           approvals[analysis_id].revision_count,
                                       timestamp |-> clock])])

request_revisions ==
    \E analysis_id \in AnalysisIds, reviewer_name \in Reviewers,
       revision_notes \in NotesDrawn :
        /\ ApprovalCall([fn |-> "request_revisions",
                         analysis_id |-> analysis_id,
                         reviewer_name |-> reviewer_name,
                         notes |-> revision_notes])
        /\ IF analysis_id \notin DOMAIN approvals
           THEN ReturnNotFound(analysis_id)
           ELSE LET revision_count ==
                        Get(approvals[analysis_id], "revision_count", 0) + 1
                IN  ReturnUpdated(analysis_id,
                    [approvals[analysis_id] EXCEPT
                        !.status = REVISIONS_NEEDED,
                        !.reviewed_by = Some(reviewer_name),
                        !.reviewed_at = Some(clock),
                        !.approval_notes = revision_notes,
                        !.revision_count = revision_count,
                        !.approval_history =
                            Append(@, [action |-> "revisions_requested",
                                       by |-> reviewer_name,
                                       notes |-> revision_notes,
                                       revision_count |-> revision_count,
                                       timestamp |-> clock])])

\* looking a record up marks it as under review
get_approval_status_marks_reviewing ==
    \E analysis_id \in AnalysisIds :
        /\ ApprovalCall([fn |-> "get_approval_status",
                         analysis_id |-> analysis_id])
        /\ IF analysis_id \notin DOMAIN approvals
           THEN /\ approval_ret' = NotFound(analysis_id)
                /\ UNCHANGED approvals
           ELSE ReturnUpdated(analysis_id,
                    [approvals[analysis_id] EXCEPT !.status = REVIEWING])

get_approval_status ==
    \E analysis_id \in AnalysisIds :
        /\ ApprovalCall([fn |-> "get_approval_status",
                         analysis_id |-> analysis_id])
        /\ approval_ret' = IF analysis_id \notin DOMAIN approvals
                           THEN NotFound(analysis_id)
                           ELSE approvals[analysis_id]
        /\ UNCHANGED approvals

clear_approvals ==
    /\ ApprovalCall([fn |-> "clear_approvals"])
    /\ approvals' = <<>>
    /\ approval_ret' = None

InitApproval ==
    /\ IdlePipeline
    /\ IdleWorkbench

NextApproval ==
    \/ create_approval_request
    \/ submit_for_review
    \/ approve_analysis
    \/ reject_analysis
    \/ request_revisions
    \/ get_approval_status
    \/ clear_approvals

SpecApproval == InitApproval /\ [][NextApproval]_vars

(***************************************************************************)
(* Properties of the approval workflow (SpecApproval): approval_call is    *)
(* the method that ran last, approvals_before the records it found,        *)
(* approvals the records it left and approval_ret what it returned.        *)
(***************************************************************************)
TransitionMethods ==
    {"submit_for_review", "approve_analysis", "reject_analysis",
     "request_revisions"}

\* the status each transition method is stated to set
TargetStatus(fn) ==
    CASE fn = "submit_for_review" -> REVIEWING
      [] fn = "approve_analysis" -> APPROVED
      [] fn = "reject_analysis" -> REJECTED
      [] fn = "request_revisions" -> REVISIONS_NEEDED

\* a transition method was called with an identifier that had a record
TransitionOnExisting ==
    /\ approval_call.fn \in TransitionMethods
    /\ approval_call.analysis_id \in DOMAIN approvals_before

\* C13: each transition method applied to an existing identifier sets that
\* record's status to its target (submit_for_review -> REVIEWING,
\* approve_analysis -> APPROVED, reject_analysis -> REJECTED,
\* request_revisions -> REVISIONS_NEEDED) and returns the updated record.
C13_TransitionSetsTarget ==
    TransitionOnExisting =>
        LET analysis_id == approval_call.analysis_id
        IN  /\ analysis_id \in DOMAIN approvals
            /\ approvals[analysis_id].status = TargetStatus(approval_call.fn)
            /\ approval_ret = approvals[analysis_id]

C13_Witness ==
    /\ approval_call.fn = "submit_for_review"
    /\ approval_call.analysis_id \in DOMAIN approvals_before
    /\ approvals[approval_call.analysis_id].status = REVIEWING
    /\ approval_ret = approvals[approval_call.analysis_id]
    /\ Len(approval_ret.approval_history) = 1

CreateCalled == approval_call.fn = "create_approval_request"

\* C14: create_approval_request(id, ...) always leaves one record for id, in
\* status PENDING with revision_count 0, no reviewer and an empty history,
\* whether or not id had a record; nothing of a previous record for id (its
\* status, reviewer, notes, counter, history) is kept.
C14_CreateOverwrites ==
    CreateCalled =>
        LET analysis_id == approval_call.analysis_id
            a == approval_call.analysis
        IN  /\ analysis_id \in DOMAIN approvals
            /\ approval_ret = approvals[analysis_id]
            /\ approvals[analysis_id].analysis_id = analysis_id
            /\ approvals[analysis_id].status = PENDING
            /\ approvals[analysis_id].revision_count = 0
            /\ approvals[analysis_id].reviewed_by = None
            /\ approvals[analysis_id].reviewed_at = None
            /\ approvals[analysis_id].approval_notes = ""
            /\ approvals[analysis_id].approval_history = <<>>
            /\ approvals[analysis_id].estimated_value =
                  (IF a = EmptyDict THEN 0 ELSE a.valuation.estimated_value)

\* an approved record with two history entries has been created again
C14_Witness ==
    /\ CreateCalled
    /\ approval_call.analysis_id \in DOMAIN approvals_before
    /\ approvals_before[approval_call.analysis_id].status = APPROVED
    /\ approvals_before[approval_call.analysis_id].revision_count = 1
    /\ Len(approvals_before[approval_call.analysis_id].approval_history) = 2
    /\ approvals[approval_call.analysis_id].approval_history = <<>>
    /\ approvals[approval_call.analysis_id].status = PENDING

\* the action each transition method is stated to record
HistoryAction(fn) ==
    CASE fn = "submit_for_review" -> "submitted_for_review"
      [] fn = "approve_analysis" -> "approved"
      [] fn = "reject_analysis" -> "rejected"
      [] fn = "request_revisions" -> "revisions_requested"

\* C15: every successful transition makes the record's history longer by
\* exactly one entry; the new last entry carries the action, the acting
\* reviewer ("by") and a timestamp; the earlier entries are unchanged and in
\* the same order.
C15_HistoryAppendOnly ==
    TransitionOnExisting =>
        LET analysis_id == approval_call.analysis_id
            before == approvals_before[analysis_id].approval_history
            after == approvals[analysis_id].approval_history
        IN  /\ Len(after) = Len(before) + 1
            /\ SubSeq(after, 1, Len(before)) = before
            /\ {"action", "by", "timestamp"} \subseteq DOMAIN after[Len(after)]
            /\ after[Len(after)].action = HistoryAction(approval_call.fn)
            /\ after[Len(after)].by = approval_call.reviewer_name
            /\ after[Len(after)].timestamp = clock - 1

\* a third entry was appended behind two entries of another reviewer
C15_Witness ==
    /\ approval_call.fn = "approve_analysis"
    /\ approval_call.reviewer_name = "bob"
    /\ approval_call.analysis_id \in DOMAIN approvals_before
    /\ LET after == approvals[approval_call.analysis_id].approval_history
       IN  /\ Len(after) = 3
           /\ after[1].action = "submitted_for_review" /\ after[1].by = "alice"
           /\ after[2].action = "revisions_requested" /\ after[2].by = "alice"
           /\ after[3].action = "approved" /\ after[3].by = "bob"
           /\ after[1].timestamp < after[2].timestamp
           /\ after[2].timestamp < after[3].timestamp

LookupMethods == TransitionMethods \cup {"get_approval_status"}

\* a method that looks the identifier up was called with one that had no record
LookupOfUnknown ==
    /\ approval_call.fn \in LookupMethods
    /\ approval_call.analysis_id \notin DOMAIN approvals_before

\* C16: submit_for_review, approve_analysis, reject_analysis,
\* request_revisions and get_approval_status, called with an identifier that
\* has no record, return a value with an "error" marker (nothing is raised),
\* create no record and leave every existing record unchanged.
C16_UnknownIdIsReported ==
    LookupOfUnknown =>
        /\ DOMAIN approval_ret = {"error"}
        /\ approval_ret = NotFound(approval_call.analysis_id)
        /\ DOMAIN approvals = DOMAIN approvals_before
        /\ approvals = approvals_before

\* a transition on an unknown identifier next to a record under review
C16_Witness ==
    /\ LookupOfUnknown
    /\ approval_call.fn = "reject_analysis"
    /\ approval_call.analysis_id = "A-2"
    /\ DOMAIN approvals = {"A-1"}
    /\ approvals["A-1"].status = REVIEWING
    /\ "error" \in DOMAIN approval_ret

\* how many entries of a history record the action
CountAction(history, action) ==
    Cardinality({k \in DOMAIN history : history[k].action = action})

\* C17: request_revisions adds exactly 1 to the record's revision counter and
\* no other transition changes it, so in every reachable state a record's
\* revision_count is the number of "revisions_requested" entries of its
\* history (0 right after create_approval_request).
C17_RevisionCountMatchesHistory ==
    /\ \A analysis_id \in DOMAIN approvals :
          approvals[analysis_id].revision_count =
              CountAction(approvals[analysis_id].approval_history,
                          "revisions_requested")
    /\ TransitionOnExisting =>
          approvals[approval_call.analysis_id].revision_count =
              approvals_before[approval_call.analysis_id].revision_count
              + (IF approval_call.fn = "request_revisions" THEN 1 ELSE 0)
    /\ CreateCalled => approvals[approval_call.analysis_id].revision_count = 0

\* two revision requests with an approval between them
C17_Witness ==
    /\ approval_call.fn = "request_revisions"
    /\ approval_call.analysis_id \in DOMAIN approvals_before
    /\ approvals[approval_call.analysis_id].revision_count = 2
    /\ approvals_before[approval_call.analysis_id].revision_count = 1
    /\ Len(approvals[approval_call.analysis_id].approval_history) = 3
    /\ approvals[approval_call.analysis_id].approval_history[3].revision_count = 2

Statuses == {PENDING, REVIEWING, APPROVED, REJECTED, REVISIONS_NEEDED}

\* the method can be called on the identifier and then leaves it in status
MovesTo(method, analysis_id, status) ==
    ENABLED (/\ method
             /\ approval_call'.analysis_id = analysis_id
             /\ approvals'[analysis_id].status = status
             /\ approval_ret' = approvals'[analysis_id])

\* C18: the approval state machine has no transition guards: whatever the
\* status of an existing record (PENDING, REVIEWING, APPROVED, REJECTED,
\* REVISIONS_NEEDED), each of submit_for_review, approve_analysis,
\* reject_analysis and request_revisions succeeds on it and moves it to its
\* target status; in particular APPROVED -> REJECTED is allowed.
C18_NoTransitionGuards ==
    /\ \A analysis_id \in DOMAIN approvals :
          /\ approvals[analysis_id].status \in Statuses
          /\ clock < MaxOps =>
                /\ MovesTo(submit_for_review, analysis_id, REVIEWING)
                /\ MovesTo(approve_analysis, analysis_id, APPROVED)
                /\ MovesTo(reject_analysis, analysis_id, REJECTED)
                /\ MovesTo(request_revisions, analysis_id, REVISIONS_NEEDED)
    /\ TransitionOnExisting =>
          /\ "error" \notin DOMAIN approval_ret
          /\ approval_ret.status = TargetStatus(approval_call.fn)

\* an approved record has been rejected
C18_Witness ==
    /\ approval_call.fn = "reject_analysis"
    /\ approval_call.analysis_id \in DOMAIN approvals_before
    /\ approvals_before[approval_call.analysis_id].status = APPROVED
    /\ approvals[approval_call.analysis_id].status = REJECTED
    /\ approval_ret.status = REJECTED

TerminalStatuses == {APPROVED, REJECTED}

\* the records that were APPROVED or REJECTED when the last method was called
WasTerminal ==
    {analysis_id \in DOMAIN approvals_before :
        approvals_before[analysis_id].status \in TerminalStatuses}

\* C19 as stated: APPROVED and REJECTED are terminal: once a record's status
\* is APPROVED or REJECTED, no later transition operation on that identifier
\* changes its status.
C19_TerminalStates ==
    \A analysis_id \in WasTerminal :
        (approval_call.fn \in TransitionMethods
            /\ approval_call.analysis_id = analysis_id)
        => /\ analysis_id \in DOMAIN approvals
           /\ approvals[analysis_id].status
                 = approvals_before[analysis_id].status

\* C19 (amended): APPROVED and REJECTED are terminal by convention only.  A
\* record that is APPROVED or REJECTED keeps its status (and everything
\* else) under get_approval_status and under any call made with another
\* identifier; a transition method called with its identifier moves it to
\* that method's target status, create_approval_request makes it PENDING
\* again and clear_approvals removes it.
C19_TerminalByConventionOnly ==
    \A analysis_id \in WasTerminal :
        IF approval_call.fn = "clear_approvals"
        THEN analysis_id \notin DOMAIN approvals
        ELSE /\ analysis_id \in DOMAIN approvals
             /\ approvals[analysis_id].status =
                   IF approval_call.analysis_id # analysis_id
                       \/ approval_call.fn = "get_approval_status"
                   THEN approvals_before[analysis_id].status
                   ELSE IF CreateCalled THEN PENDING
                   ELSE TargetStatus(approval_call.fn)
             /\ (approval_call.analysis_id # analysis_id
                    \/ approval_call.fn = "get_approval_status")
                => approvals[analysis_id] = approvals_before[analysis_id]

\* an approved record was sent back for revisions
C19_Witness ==
    /\ approval_call.fn = "request_revisions"
    /\ approval_call.analysis_id = "A-1"
    /\ "A-1" \in WasTerminal
    /\ approvals_before["A-1"].status = APPROVED
    /\ approvals["A-1"].status = REVISIONS_NEEDED
    /\ approvals["A-1"].revision_count = 1

(***************************************************************************)
(* human_intervention/feedback_handler.py: FeedbackHandler.                *)
(* feedback_history is the list of the object.  A confidence adjustment is *)
(* counted in tenths (1.5 is 15); an address and a feedback text are       *)
(* sequences of characters.                                                *)
(***************************************************************************)
ElmRoad == <<"9", " ", "E", "l", "m", " ", "R", "d">>

\* the submissions drawn: address, type, content, analyst, adjustment
SubmissionsDrawn ==
    {[property_address |-> MainStreet, feedback_type |-> "correction",
      feedback_content |-> <<"l", "o", "w">>, analyst_name |-> "alice",
      confidence_adjustment |-> 15],
     [property_address |-> MainStreet, feedback_type |-> "approval",
      feedback_content |-> <<"o", "k">>, analyst_name |-> "Anonymous",
      confidence_adjustment |-> 0],
     [property_address |-> ElmRoad, feedback_type |-> "correction",
      feedback_content |-> <<"h", "i", "g", "h">>, analyst_name |-> "bob",
      confidence_adjustment |-> -15],
     [property_address |-> ElmRoad, feedback_type |-> "clarification",
      feedback_content |-> <<"o", "k">>, analyst_name |-> "alice",
      confidence_adjustment |-> 3],
     [property_address |-> MainStreet, feedback_type |-> "rejection",
      feedback_content |-> <<"n", "o">>, analyst_name |-> "bob",
      confidence_adjustment |-> -10]}

AddressesQueried == {MainStreet, ElmRoad, <<"?">>}

\* one method call of the FeedbackHandler object: what it leaves alone
FeedbackMethod(c) ==
    /\ clock < MaxOps
    /\ clock' = clock + 1
    /\ feedback_call' = c
    /\ feedback_before' = feedback_history
    /\ UNCHANGED <<pipeline, approval_vars, validation_vars>>

\* a method that is not handed the caller's analysis
FeedbackCall(c) ==
    /\ FeedbackMethod(c)
    /\ UNCHANGED caller_analysis

\* only the upper limit is applied
ClampAdjustment_upper_only(confidence_adjustment) ==
    Min(10, confidence_adjustment)

\* max(-1.0, min(1.0, confidence_adjustment)), in tenths
ClampAdjustment(confidence_adjustment) ==
    Max(-10, Min(10, confidence_adjustment))

\* the id is the length of the log, without the 1 added
submit_feedback_id_from_zero ==
    \E s \in SubmissionsDrawn :
        LET feedback_record ==
                [id |-> Len(feedback_history),
                 timestamp |-> clock,
                 property_address |-> s.property_address,
                 feedback_type |-> s.feedback_type,
                 feedback_content |-> s.feedback_content,
                 analyst_name |-> s.analyst_name,
                 confidence_adjustment |->
                     ClampAdjustment(s.confidence_adjustment),
                 status |-> "submitted"]
        IN  /\ FeedbackCall([fn |-> "submit_feedback", args |-> s])
            /\ feedback_history' = Append(feedback_history, feedback_record)
            /\ feedback_ret' = feedback_record

submit_feedback ==
    \E s \in SubmissionsDrawn :
        LET feedback_record ==
                [id |-> Len(feedback_history) + 1,
                 timestamp |-> clock,
                 property_address |-> s.property_address,
                 feedback_type |-> s.feedback_type,
                 feedback_content |-> s.feedback_content,
                 analyst_name |-> s.analyst_name,
                 confidence_adjustment |->
                     ClampAdjustment(s.confidence_adjustment),
                 status |-> "submitted"]
        IN  /\ FeedbackCall([fn |-> "submit_feedback", args |-> s])
            /\ feedback_history' = Append(feedback_history, feedback_record)
            /\ feedback_ret' = feedback_record

\* the matching records are returned newest first
get_feedback_for_property_newest_first ==
    \E property_address \in AddressesQueried :
        /\ FeedbackCall([fn |-> "get_feedback_for_property",
                         args |-> property_address])
        /\ feedback_ret' =
              LET found == SelectSeq(feedback_history,
                               LAMBDA f : f.property_address = property_address)
              IN  [k \in 1..Len(found) |-> found[Len(found) + 1 - k]]
        /\ UNCHANGED feedback_history

get_feedback_for_property ==
    \E property_address \in AddressesQueried :
        /\ FeedbackCall([fn |-> "get_feedback_for_property",
                         args |-> property_address])
        /\ feedback_ret' =
              SelectSeq(feedback_history,
                        LAMBDA f : f.property_address = property_address)
        /\ UNCHANGED feedback_history

get_feedback_summary ==
    /\ FeedbackCall([fn |-> "get_feedback_summary"])
    /\ feedback_ret' =
          LET types == {feedback_history[k].feedback_type :
                            k \in DOMAIN feedback_history}
          IN  [total_feedback |-> Len(feedback_history),
               feedback_by_type |->
                   [t \in types |->
                       Cardinality({k \in DOMAIN feedback_history :
                                       feedback_history[k].feedback_type = t})],
               unique_properties |->
                   Cardinality({feedback_history[k].property_address :
                                   k \in DOMAIN feedback_history}),
               unique_analysts |->
                   Cardinality({feedback_history[k].analyst_name :
                                   k \in DOMAIN feedback_history})]
    /\ UNCHANGED feedback_history

\* an exact fraction n / d with d > 0, in lowest terms: a confidence score
Frac(n, d) == LET g == GCD(Abs(n), d) IN <<n \div g, d \div g>>
FracAdd(x, y) == Frac(x[1] * y[2] + y[1] * x[2], x[2] * y[2])
FracLess(x, y) == x[1] * y[2] < y[1] * x[2]

\* max(0.0, min(1.0, x))
ClampConfidence(x) ==
    IF FracLess(<<1, 1>>, x) THEN <<1, 1>>
    ELSE IF FracLess(x, <<0, 1>>) THEN <<0, 1>>
    ELSE x

RECURSIVE SumAdjustments(_)
\* sum(f.get("confidence_adjustment", 0) for f in feedback_list), in tenths
SumAdjustments(feedback_list) ==
    IF feedback_list = <<>> THEN 0
    ELSE Get(Head(feedback_list), "confidence_adjustment", 0)
         + SumAdjustments(Tail(feedback_list))

\* total_adjustment / len(feedback_list)
avg_adjustment(feedback_list) ==
    Frac(SumAdjustments(feedback_list), 10 * Len(feedback_list))

\* the first 100 characters and "..." for a content longer than 100
ContentShown(content) ==
    IF Len(content) > 100 THEN Prefix(content, 100) \o <<".", ".", ".">>
    ELSE content

\* the sum of the score and the average is stored as it is
AdjustedValuation_unclamped(valuation, feedback_list) ==
    LET current_confidence == Get(valuation, "confidence_score", <<17, 20>>)
    IN  ("confidence_score" :>
             FracAdd(current_confidence, avg_adjustment(feedback_list)))
        @@ valuation

\* the valuation dictionary with the confidence score written into it
AdjustedValuation(valuation, feedback_list) ==
    LET current_confidence == Get(valuation, "confidence_score", <<17, 20>>)
        adjusted_confidence ==
            ClampConfidence(FracAdd(current_confidence,
                                    avg_adjustment(feedback_list)))
    IN  ("confidence_score" :> adjusted_confidence) @@ valuation

\* adjusted_analysis["human_feedback"]
HumanFeedback(feedback_list, now) ==
    [feedback_count |-> Len(feedback_list),
     confidence_adjustment |-> avg_adjustment(feedback_list),
     last_feedback |-> now,
     feedback_summary |->
         [k \in DOMAIN feedback_list |->
             [type |-> feedback_list[k].feedback_type,
              analyst |-> feedback_list[k].analyst_name,
              content |-> ContentShown(feedback_list[k].feedback_content)]]]

\* the analysis dictionaries the caller can hand over: its own, or the one
\* the last apply_feedback_to_analysis returned
AnalysesHeld ==
    {"original"} \cup (IF feedback_call.fn = "apply_feedback_to_analysis"
                       THEN {"returned"} ELSE {})

\* the feedback lists the caller hands over: none, or the log
FeedbackListsHeld == {<<>>, feedback_history}

\* analysis.copy() is a shallow copy: the returned dictionary and every
\* dictionary copied from it share the caller's valuation dictionary, so the
\* confidence score written through the copy is seen through all of them
apply_feedback_to_analysis ==
    \E held \in AnalysesHeld, feedback_list \in FeedbackListsHeld :
        LET given == IF held = "original" THEN caller_analysis
                     ELSE feedback_ret
        IN  /\ FeedbackMethod([fn |-> "apply_feedback_to_analysis",
                               args |-> [analysis |-> given,
                                         feedback_list |-> feedback_list],
                               original |-> caller_analysis])
            /\ UNCHANGED feedback_history
            /\ IF feedback_list = <<>>
               THEN /\ feedback_ret' = given
                    /\ UNCHANGED caller_analysis
               ELSE IF "valuation" \in DOMAIN given
               THEN LET valuation ==
                            AdjustedValuation(given.valuation, feedback_list)
                    IN  /\ feedback_ret' =
                              ("human_feedback" :>
                                   HumanFeedback(feedback_list, clock))
                              @@ [given EXCEPT !.valuation = valuation]
                        /\ caller_analysis' =
                              [caller_analysis EXCEPT !.valuation = valuation]
               ELSE /\ feedback_ret' =
                          ("human_feedback" :>
                               HumanFeedback(feedback_list, clock)) @@ given
                    /\ UNCHANGED caller_analysis

\* only the newest record is removed
clear_history_drops_newest ==
    /\ FeedbackCall([fn |-> "clear_history"])
    /\ feedback_history' = SubSeq(feedback_history, 1, Len(feedback_history) - 1)
    /\ feedback_ret' = None

clear_history ==
    /\ FeedbackCall([fn |-> "clear_history"])
    /\ feedback_history' = <<>>
    /\ feedback_ret' = None

\* the analyses a caller holds when it starts to work with the handler:
\* confidence 0.85, 0.98 and 0.1, a valuation without a confidence score
\* and an analysis without a valuation section
CallerAnalysesDrawn ==
    {[valuation |-> [estimated_value |-> 45000000,
                     confidence_score |-> c],
      investment_analysis |-> [investment_score |-> 7]] :
         c \in {<<17, 20>>, <<49, 50>>, <<1, 10>>}}
    \cup (AnalysesDrawn \ {EmptyDict})
    \cup {[analysis_summary |-> [status |-> "completed"]]}

InitFeedback ==
    /\ IdlePipeline
    /\ clock = 0
    /\ IdleApprovalWorkflow
    /\ IdleFeedbackHandler
    /\ IdleValidationManager
    /\ caller_analysis \in CallerAnalysesDrawn

NextFeedback ==
    \/ submit_feedback
    \/ get_feedback_for_property
    \/ get_feedback_summary
    \/ apply_feedback_to_analysis
    \/ clear_history

SpecFeedback == InitFeedback /\ [][NextFeedback]_vars

(***************************************************************************)
(* Properties of the feedback log (SpecFeedback).                          *)
(***************************************************************************)
\* C20: submit_feedback assigns the next sequential id: in every reachable
\* state the k-th record of the log (counted from 1) has id k, so the ids of
\* the log are unique and strictly increasing in submission order; after
\* clear_history the numbering starts at 1 again.
C20_SequentialIds ==
    /\ \A k \in DOMAIN feedback_history : feedback_history[k].id = k
    /\ \A j, k \in DOMAIN feedback_history :
          /\ j < k => feedback_history[j].id < feedback_history[k].id
          /\ j # k => feedback_history[j].id # feedback_history[k].id
    /\ feedback_call.fn = "submit_feedback" =>
          /\ feedback_ret = feedback_history[Len(feedback_history)]
          /\ feedback_ret.id = Len(feedback_history)
    /\ feedback_call.fn = "clear_history" => feedback_history = <<>>

\* a log of two records submitted after a clear that followed a submission
C20_Witness ==
    /\ feedback_call.fn = "submit_feedback"
    /\ Len(feedback_history) = 2
    /\ feedback_history[1].id = 1 /\ feedback_history[1].timestamp = 2
    /\ feedback_history[2].id = 2 /\ feedback_history[2].timestamp = 3
    /\ feedback_history[1].property_address # feedback_history[2].property_address

SubmitCalled == feedback_call.fn = "submit_feedback"

\* C21: the confidence_adjustment stored in a feedback record is the
\* submitted value clamped to [-1, 1] (tenths: [-10, 10]): a value above 1 is
\* stored as 1.0, a value below -1 as -1.0, a value inside the interval
\* unchanged; every record of the log has its adjustment in [-1, 1].
C21_AdjustmentClamped ==
    /\ \A k \in DOMAIN feedback_history :
          /\ feedback_history[k].confidence_adjustment >= -10
          /\ feedback_history[k].confidence_adjustment <= 10
    /\ SubmitCalled =>
          LET submitted == feedback_call.args.confidence_adjustment
              stored == feedback_history[Len(feedback_history)]
                            .confidence_adjustment
          IN  /\ submitted > 10 => stored = 10
              /\ submitted < -10 => stored = -10
              /\ (submitted >= -10 /\ submitted <= 10) => stored = submitted
              /\ feedback_ret.confidence_adjustment = stored

\* 1.5 was stored as 1.0 behind a record that stored -1.5 as -1.0
C21_Witness ==
    /\ SubmitCalled
    /\ feedback_call.args.confidence_adjustment = 15
    /\ Len(feedback_history) = 2
    /\ feedback_history[2].confidence_adjustment = 10
    /\ feedback_history[1].confidence_adjustment = -10
    /\ feedback_history[1].feedback_type = "correction"

QueryCalled == feedback_call.fn = "get_feedback_for_property"

\* the positions of the log that hold a record for the address
PositionsFor(property_address) ==
    {k \in DOMAIN feedback_history :
        feedback_history[k].property_address = property_address}

\* C22: get_feedback_for_property(a) returns exactly the records of the log
\* (the records submitted since the last clear) that were submitted for
\* address a: all of them, no record of another address, in submission
\* order, however submissions for other addresses were interleaved.
C22_QueryByAddress ==
    QueryCalled =>
        LET a == feedback_call.args
        IN  /\ Len(feedback_ret) = Cardinality(PositionsFor(a))
            /\ \A k \in DOMAIN feedback_ret :
                  /\ feedback_ret[k].property_address = a
                  /\ feedback_ret[k].id \in PositionsFor(a)
                  /\ feedback_ret[k] = feedback_history[feedback_ret[k].id]
            /\ \A k \in PositionsFor(a) :
                  \E j \in DOMAIN feedback_ret :
                      feedback_ret[j] = feedback_history[k]
            /\ \A j, k \in DOMAIN feedback_ret :
                  j < k => feedback_ret[j].id < feedback_ret[k].id

\* two records of one address are returned around one of another address
C22_Witness ==
    /\ QueryCalled
    /\ feedback_call.args = MainStreet
    /\ Len(feedback_history) = 3
    /\ feedback_history[2].property_address = ElmRoad
    /\ Len(feedback_ret) = 2
    /\ feedback_ret[1].id = 1
    /\ feedback_ret[2].id = 3

ApplyCalled == feedback_call.fn = "apply_feedback_to_analysis"

ReadingMethods ==
    {"get_feedback_for_property", "get_feedback_summary",
     "apply_feedback_to_analysis"}

\* C23: the feedback log is append-only: submit_feedback adds exactly one
\* record at the end and leaves every earlier record unchanged;
\* get_feedback_for_property, get_feedback_summary and
\* apply_feedback_to_analysis leave the log unchanged; only clear_history
\* removes records, and it removes all of them.
C23_LogAppendOnly ==
    /\ SubmitCalled =>
          /\ Len(feedback_history) = Len(feedback_before) + 1
          /\ SubSeq(feedback_history, 1, Len(feedback_before)) = feedback_before
          /\ feedback_history[Len(feedback_history)].property_address
                = feedback_call.args.property_address
    /\ feedback_call.fn \in ReadingMethods => feedback_history = feedback_before
    /\ feedback_call.fn = "clear_history" => feedback_history = <<>>
    /\ feedback_call.fn # "clear_history" =>
          /\ Len(feedback_history) >= Len(feedback_before)
          /\ \A k \in DOMAIN feedback_before :
                feedback_history[k] = feedback_before[k]

\* feedback was applied from a log of two records, which is as it was
C23_Witness ==
    /\ ApplyCalled
    /\ Len(feedback_before) = 2
    /\ feedback_call.args.feedback_list = feedback_before
    /\ "human_feedback" \in DOMAIN feedback_ret
    /\ feedback_history = feedback_before

\* the analysis handed to apply_feedback_to_analysis, as it was handed over
GivenAnalysis == feedback_call.args.analysis
GivenFeedback == feedback_call.args.feedback_list

\* the mean of the confidence adjustments of the list, as a fraction of 1
MeanAdjustment(feedback_list) ==
    LET total == SumAdjustments(feedback_list)
        g == GCD(Abs(total), 10 * Len(feedback_list))
    IN  <<total \div g, (10 * Len(feedback_list)) \div g>>

\* x is clamp(p + q, 0, 1) for fractions p = n/d and q = m/e
IsClampedSum(x, p, q) ==
    LET num == p[1] * q[2] + q[1] * p[2]
        den == p[2] * q[2]
    IN  IF num > den THEN x = <<1, 1>>
        ELSE IF num < 0 THEN x = <<0, 1>>
        ELSE x[1] * den = num * x[2]

InUnitInterval(x) == x[1] >= 0 /\ x[1] <= x[2]

\* C24: with a non-empty feedback list apply_feedback_to_analysis returns an
\* analysis whose valuation confidence score is clamp(previous confidence +
\* mean of the supplied adjustments, 0, 1), so the score stays in [0, 1]
\* over any sequence of applications; with an empty list the score is
\* unchanged and no feedback block is added.
C24_ConfidenceAdjusted ==
    ApplyCalled =>
        /\ (GivenFeedback # <<>> /\ "valuation" \in DOMAIN GivenAnalysis)
              => /\ "confidence_score" \in DOMAIN GivenAnalysis.valuation
                    => IsClampedSum(feedback_ret.valuation.confidence_score,
                                    GivenAnalysis.valuation.confidence_score,
                                    MeanAdjustment(GivenFeedback))
                 /\ InUnitInterval(feedback_ret.valuation.confidence_score)
                 /\ "human_feedback" \in DOMAIN feedback_ret
        /\ GivenFeedback = <<>>
              => /\ feedback_ret = GivenAnalysis
                 /\ ("human_feedback" \in DOMAIN feedback_ret)
                       = ("human_feedback" \in DOMAIN GivenAnalysis)

\* 0.1 was raised by the mean 0.65 of the adjustments 1.0 and 0.3
C24_Witness ==
    /\ ApplyCalled
    /\ Len(GivenFeedback) = 2
    /\ GivenFeedback[1].confidence_adjustment = 10
    /\ GivenFeedback[2].confidence_adjustment = 3
    /\ "valuation" \in DOMAIN GivenAnalysis
    /\ Get(GivenAnalysis.valuation, "confidence_score", <<0, 1>>) = <<1, 10>>
    /\ feedback_ret.valuation.confidence_score = <<3, 4>>

(***************************************************************************)
(* human_intervention/validation_manager.py: ValidationManager.            *)
(* The analysis handed over is a dictionary of sections.  A Python value   *)
(* that the method tests is kept with its type: a section is a dictionary  *)
(* or None, a field a number, a string or None ([t, n, s]: the type, the   *)
(* number, the string).  estimated_value is in cents, confidence_score in  *)
(* thousandths.                                                            *)
(***************************************************************************)
PyDict(d) == [t |-> "dict", v |-> d]
NoneSection == [t |-> "NoneType", v |-> [k \in {} |-> 0]]
PyNum(x) == [t |-> "number", n |-> x, s |-> ""]
PyStr(x) == [t |-> "str", n |-> 0, s |-> x]
PyNone == [t |-> "NoneType", n |-> 0, s |-> ""]

\* what a section validator gives: its list of issues, or the TypeError of
\* "key in None" or of comparing a number with a string or with None
Issues(list) == [raised |-> FALSE, issues |-> list]
TypeError == [raised |-> TRUE, issues |-> <<>>]

\* the validators of the sections run one after the other
Then(first, second) ==
    IF first.raised \/ second.raised THEN TypeError
    ELSE Issues(first.issues \o second.issues)

\* isinstance(x, (int, float))
IsNumber(x) == x.t = "number"

\* not (low <= x <= high), which raises unless x is a number
OutOfRange(x, low, high, issue) ==
    IF ~IsNumber(x) THEN TypeError
    ELSE Issues(When(~(low <= x.n /\ x.n <= high), issue))

Missing(d, key, issue) == Issues(When(key \notin DOMAIN d, issue))

\* _validate_valuation
validate_valuation(valuation) ==
    IF valuation.t # "dict" THEN TypeError
    ELSE LET d == valuation.v
         IN  Then(IF "estimated_value" \notin DOMAIN d
                  THEN Issues(<<"Valuation: Missing estimated_value">>)
                  ELSE Issues(When(~IsNumber(d.estimated_value)
                                      \/ d.estimated_value.n <= 0,
                      "Valuation: estimated_value must be positive number")),
                  IF "confidence_score" \notin DOMAIN d
                  THEN Issues(<<"Valuation: Missing confidence_score">>)
                  ELSE OutOfRange(d.confidence_score, 0, 1000,
                      "Valuation: confidence_score must be between 0 and 1"))

\* the upper limit of the investment score is not tested
validate_investment_no_upper_limit(investment) ==
    IF investment.t # "dict" THEN TypeError
    ELSE LET d == investment.v
         IN  Then(Missing(d, "roi_percentage",
                          "Investment: Missing roi_percentage"),
             Then(IF "investment_score" \notin DOMAIN d
                  THEN Issues(<<"Investment: Missing investment_score">>)
                  ELSE IF ~IsNumber(d.investment_score) THEN TypeError
                  ELSE Issues(When(~(1 <= d.investment_score.n),
                      "Investment: investment_score must be between 1 and 10")),
                  Missing(d, "recommendation",
                          "Investment: Missing recommendation")))

\* _validate_investment
validate_investment(investment) ==
    IF investment.t # "dict" THEN TypeError
    ELSE LET d == investment.v
         IN  Then(Missing(d, "roi_percentage",
                          "Investment: Missing roi_percentage"),
             Then(IF "investment_score" \notin DOMAIN d
                  THEN Issues(<<"Investment: Missing investment_score">>)
                  ELSE OutOfRange(d.investment_score, 1, 10,
                      "Investment: investment_score must be between 1 and 10"),
                  Missing(d, "recommendation",
                          "Investment: Missing recommendation")))

\* _validate_market
validate_market(market) ==
    IF market.t # "dict" THEN TypeError
    ELSE Then(Missing(market.v, "market_trend", "Market: Missing market_trend"),
              Missing(market.v, "comparable_properties",
                      "Market: Missing comparable_properties"))

\* _validate_risk
validate_risk(risk) ==
    IF risk.t # "dict" THEN TypeError
    ELSE Then(Missing(risk.v, "location_risk", "Risk: Missing location_risk"),
         Then(Missing(risk.v, "maintenance_risk",
                      "Risk: Missing maintenance_risk"),
              Missing(risk.v, "overall_risk", "Risk: Missing overall_risk")))

MissingSection(a, section) ==
    Issues(When(section \notin DOMAIN a,
                <<"Missing required field: ", section>>))

validate_analysis(a) ==
    LET found ==
            Then(MissingSection(a, "analysis_summary"),
            Then(MissingSection(a, "valuation"),
            Then(MissingSection(a, "investment_analysis"),
            Then(MissingSection(a, "market_analysis"),
            Then(MissingSection(a, "risk_assessment"),
            \* a section validator runs if its section is in the analysis
            Then(IF "valuation" \in DOMAIN a
                 THEN validate_valuation(a.valuation) ELSE Issues(<<>>),
            Then(IF "investment_analysis" \in DOMAIN a
                 THEN validate_investment(a.investment_analysis)
                 ELSE Issues(<<>>),
            Then(IF "market_analysis" \in DOMAIN a
                 THEN validate_market(a.market_analysis) ELSE Issues(<<>>),
                 IF "risk_assessment" \in DOMAIN a
                 THEN validate_risk(a.risk_assessment)
                 ELSE Issues(<<>>)))))))))
    IN  IF found.raised THEN Raised("TypeError")
        ELSE Returned([is_valid |-> Len(found.issues) = 0,
                       issues |-> found.issues])

\* a dictionary with some of its keys left out
Without(d, keys) == [k \in DOMAIN d \ keys |-> d[k]]

\* the values drawn for the two scores
EstimatedValuesDrawn ==
    {PyNum(45000000), PyNum(0), PyNum(-100), PyStr("n/a")}
ConfidenceScoresDrawn ==
    {PyNum(850), PyNum(0), PyNum(1000), PyNum(1001), PyNum(-1),
     PyStr("high"), PyNone}
InvestmentScoresDrawn ==
    {PyNum(7), PyNum(1), PyNum(10), PyNum(0), PyNum(11), PyStr("7"), PyNone}

\* a section as the engine writes it, with the keys the validator looks at
ValuationsDrawn ==
    {Without([estimated_value |-> e, confidence_score |-> c], omit) :
        e \in EstimatedValuesDrawn, c \in ConfidenceScoresDrawn,
        omit \in {{}, {"estimated_value"}, {"confidence_score"}}}
InvestmentsDrawn ==
    {Without([roi_percentage |-> PyNum(1050), investment_score |-> i,
              recommendation |-> PyStr("RECOMMENDED")], omit) :
        i \in InvestmentScoresDrawn,
        omit \in {{}, {"roi_percentage"}, {"investment_score"},
                  {"recommendation"}}}
MarketsDrawn ==
    {Without([market_trend |-> PyStr("stable"),
              comparable_properties |-> PyStr("...")], omit) :
        omit \in {{}, {"market_trend"}, {"comparable_properties"}}}
RisksDrawn ==
    {Without([location_risk |-> PyStr("low"),
              maintenance_risk |-> PyStr("low"),
              overall_risk |-> PyStr("moderate")], omit) :
        omit \in {{}, {"location_risk"}, {"maintenance_risk"},
                  {"overall_risk"}}}

\* a section is a dictionary or None
SectionValues(dicts) == {PyDict(d) : d \in dicts} \cup {NoneSection}

SectionNames ==
    {"analysis_summary", "valuation", "investment_analysis",
     "market_analysis", "risk_assessment"}

\* the analyses handed to validate_analysis: every section in every drawn
\* form, and at most one section left out
AnalysesValidated ==
    {Without(a, omit) :
        a \in [analysis_summary : {PyDict([status |-> PyStr("completed")])},
               valuation : SectionValues(ValuationsDrawn),
               investment_analysis : SectionValues(InvestmentsDrawn),
               market_analysis : SectionValues(MarketsDrawn),
               risk_assessment : SectionValues(RisksDrawn)],
        omit \in {{}} \cup {{section} : section \in SectionNames}}

InitValidation ==
    /\ IdlePipeline
    /\ clock = 0
    /\ IdleApprovalWorkflow
    /\ IdleFeedbackHandler
    /\ caller_analysis = NoAnalysis
    /\ analysis_given \in AnalysesValidated
    /\ validation_rets = <<>>

\* one call of validate_analysis on the analysis
ValidateAnalysis ==
    /\ clock < MaxOps
    /\ clock' = clock + 1
    /\ validation_rets' = Append(validation_rets, validate_analysis(analysis_given))
    /\ UNCHANGED <<pipeline, approval_vars, feedback_vars, analysis_given>>

NextValidation == ValidateAnalysis

SpecValidation == InitValidation /\ [][NextValidation]_vars

\* C25: validate_analysis never raises: every call returns a (valid, issues)
\* pair, also when a section is present but is not a map (valuation is None)
\* and when confidence_score or investment_score is present but is not a
\* number.
C25_ValidateNeverRaises ==
    \A i \in DOMAIN validation_rets : validation_rets[i].exc = "none"

\* the conditions on the record, as they are stated
Present(a, section, key) ==
    /\ section \in DOMAIN a
    /\ a[section].t = "dict"
    /\ key \in DOMAIN a[section].v

NumberBetween(a, section, key, low, high) ==
    /\ Present(a, section, key)
    /\ a[section].v[key].t = "number"
    /\ low <= a[section].v[key].n
    /\ a[section].v[key].n <= high

StatedConditions(a) ==
    /\ SectionNames \subseteq DOMAIN a
    /\ Present(a, "valuation", "estimated_value")
    /\ a.valuation.v.estimated_value.t = "number"
    /\ a.valuation.v.estimated_value.n > 0
    /\ NumberBetween(a, "valuation", "confidence_score", 0, 1000)
    /\ Present(a, "investment_analysis", "roi_percentage")
    /\ Present(a, "investment_analysis", "recommendation")
    /\ NumberBetween(a, "investment_analysis", "investment_score", 1, 10)
    /\ Present(a, "market_analysis", "market_trend")
    /\ Present(a, "market_analysis", "comparable_properties")
    /\ Present(a, "risk_assessment", "location_risk")
    /\ Present(a, "risk_assessment", "maintenance_risk")
    /\ Present(a, "risk_assessment", "overall_risk")

ReturnedValid(r) == r.exc = "none" /\ r.val.is_valid

\* C26: validate_analysis returns valid = true exactly when the list of
\* issues is empty, and exactly when the five sections are present,
\* estimated_value is a number > 0, confidence_score is in [0, 1],
\* roi_percentage and recommendation are present, investment_score is in
\* [1, 10], market_trend and comparable_properties are present and the three
\* risks are present; a later call on the same record gives the same pair.
C26_ValidIffNoIssuesIffConditions ==
    \A i \in DOMAIN validation_rets :
        LET r == validation_rets[i]
        IN  /\ r.exc = "none" => (r.val.is_valid <=> r.val.issues = <<>>)
            /\ ReturnedValid(r) <=> StatedConditions(analysis_given)
            /\ r = validation_rets[1]

C26_Witness ==
    /\ Len(validation_rets) >= 2
    /\ StatedConditions(analysis_given)
    /\ ReturnedValid(validation_rets[2])
    /\ analysis_given.investment_analysis.v.investment_score = PyNum(10)
    /\ analysis_given.valuation.v.confidence_score = PyNum(0)

\* the status that the action of a history entry leads to
StatusAfter(action) ==
    CASE action = "submitted_for_review" -> REVIEWING
      [] action = "approved" -> APPROVED
      [] action = "rejected" -> REJECTED
      [] action = "revisions_requested" -> REVISIONS_NEEDED

LastEntry(approval) ==
    approval.approval_history[Len(approval.approval_history)]

\* C27: in every reachable state of an ApprovalWorkflow each record's status
\* is consistent with its history: with an empty history the status is
\* PENDING and reviewed_by is unset; otherwise the status is the target of the
\* last history entry's action and reviewed_by is that entry's "by".
C27_StatusMatchesLastEntry ==
    \A analysis_id \in DOMAIN approvals :
        LET approval == approvals[analysis_id]
        IN  IF approval.approval_history = <<>>
            THEN /\ approval.status = PENDING
                 /\ approval.reviewed_by = None
            ELSE /\ approval.status = StatusAfter(LastEntry(approval).action)
                 /\ approval.reviewed_by = Some(LastEntry(approval).by)

C27_Witness ==
    /\ DOMAIN approvals = {"A-1", "A-2"}
    /\ approvals["A-2"].approval_history = <<>>
    /\ approvals["A-2"].status = PENDING
    /\ Len(approvals["A-1"].approval_history) = 2
    /\ approvals["A-1"].approval_history[1].action = "approved"
    /\ approvals["A-1"].approval_history[1].by = "alice"
    /\ LastEntry(approvals["A-1"]).action = "revisions_requested"
    /\ approvals["A-1"].status = REVISIONS_NEEDED
    /\ approvals["A-1"].reviewed_by = Some("bob")

\* C28: apply_feedback_to_analysis does not modify the analysis passed to
\* it: after the call the caller's original record still has its previous
\* valuation.confidence_score and no human_feedback block, and only the
\* returned record carries the adjustment.
C28_OriginalNotModified ==
    ApplyCalled =>
        /\ caller_analysis = feedback_call.original
        /\ "human_feedback" \notin DOMAIN caller_analysis

\* calculate_risk_level was called with a valid location type, a valid
\* condition and an age of 0 to 200 years
RiskLevelOfValidInput ==
    /\ HelperReturned("calculate_risk_level")
    /\ call.a \in Range(VALID_LOCATION_TYPES)
    /\ call.b \in Range(VALID_CONDITIONS)
    /\ call.c \in 0..200

\* C29: calculate_risk_level never returns "high" for a valid location type,
\* a valid condition and an age in 0..200: the worst band reached is
\* "moderate-high", and an age of at most 30 years adds nothing (the third
\* age branch is never taken).
C29_NeverHigh ==
    RiskLevelOfValidInput =>
        /\ ret.exc = "none"
        /\ ret.val \in {"low", "low-moderate", "moderate", "moderate-high"}
        /\ call.c <= 30 => ret = calculate_risk_level(call.a, call.b, 0)

\* the riskiest valid input has been classified
C29_Witness ==
    /\ RiskLevelOfValidInput
    /\ call.a = "rural" /\ call.b = "poor" /\ call.c = 51
    /\ ret.val = "moderate-high"

\* analyze_property returned a record whose estimated value is positive
EngineValuedPositive ==
    /\ EngineReturned
    /\ analysis.exc = "none"
    /\ analysis.val.valuation.estimated_value > 0

\* C30: for every input with a positive estimated value analyze_property
\* computes an ROI between 8% and 14%, so the investment_score is 7 or 9 and
\* never 3 or 5: the "CONSIDER" and "NOT RECOMMENDED" recommendations and the
\* "Below-average rental yield" weakness do not occur.
C30_RoiBetween8And14 ==
    EngineValuedPositive =>
        LET investment == analysis.val.investment_analysis
        IN  /\ investment.roi_percentage >= 800
            /\ investment.roi_percentage <= 1400
            /\ investment.investment_score \in {7, 9}
            /\ analysis.val.analysis_summary.investment_score \in {7, 9}
            /\ investment.roi_category \in {"excellent", "good"}
            /\ analysis.val.recommendations.headline
                   \in {"HIGHLY RECOMMENDED", "RECOMMENDED"}
            /\ investment.recommendation \in
                   {"HIGHLY RECOMMENDED - Strong investment potential with excellent ROI",
                    "RECOMMENDED - Good investment with solid returns"}
            /\ "Below-average rental yield compared to market"
                   \notin Range(analysis.val.property_features.weaknesses)

\* the lowest yield and the lowest appreciation were drawn: ROI 8.00%
C30_Witness ==
    /\ EngineValuedPositive
    /\ rnd.rental_yield = <<1, 20>>
    /\ rnd.appreciation_rate = <<3, 100>>
    /\ analysis.val.investment_analysis.roi_percentage = 800
    /\ analysis.val.investment_analysis.investment_score = 7

====
